---- MODULE Spec2Model ----
(***************************************************************************)
(* Model of the comp_hack lobby transport: the LobbyConnection state       *)
(* machine over TcpConnection, the packet buffer it parses with, the       *)
(* per-frame Blowfish envelope and the message queue it feeds.             *)
(*                                                                         *)
(* Bytes are naturals 0..255, byte strings are sequences.  A uint32_t that *)
(* can hold an arbitrary wire value is kept as a pair <<hi, lo>> of 16-bit *)
(* halves so that the arithmetic wraps at 2^32 as in the C++ code.         *)
(***************************************************************************)
EXTENDS Integers, Sequences, FiniteSets, TLC

(***************************************************************************)
(* Program constants.                                                      *)
(***************************************************************************)
MAX_PACKET_SIZE == 16384
BLOWFISH_BLOCK_SIZE == 8
DH_KEY_BIT_SIZE == 1024
DH_KEY_HEX_SIZE == DH_KEY_BIT_SIZE \div 4
DH_SHARED_DATA_SIZE == DH_KEY_BIT_SIZE \div 8
BF_NET_KEY_BYTE_SIZE == 8
\* DH_BASE_STRING is "2"; strings are sequences of ASCII codes.
DH_BASE_STRING == <<50>>

(***************************************************************************)
(* Bounds of the model.                                                    *)
(***************************************************************************)
\* Messages the remote peers send over the whole run.
MaxPeerMsgs == 3
\* Calls of Connect on the client-role connection.
MaxConnects == 2
\* Frames the application passes to SendPacket.
MaxAppSends == 3
\* Socket operations that complete with an error or a short count.
MaxFaults == 1
\* Receives that complete with fewer bytes than were there to read, and the
\* number of bytes such a receive delivers.
MaxPartialReads == 1
PartialLen == 5
\* Frames the application passes to SendPacket while the handshake runs.
MaxEncSends == 1

(***************************************************************************)
(* uint32_t arithmetic on <<hi, lo>> pairs.                                *)
(***************************************************************************)
U32(n) == <<n \div 65536, n % 65536>>

AddU32(a, b) ==
    LET lo == a[2] + b[2]
        hi == a[1] + b[1] + (lo \div 65536)
    IN  <<hi % 65536, lo % 65536>>

SubU32(a, b) ==
    LET lo == a[2] - b[2] + 65536
        hi == a[1] - b[1] + 65536 - (IF lo < 65536 THEN 1 ELSE 0)
    IN  <<hi % 65536, lo % 65536>>

LtU32(a, b) == a[1] < b[1] \/ (a[1] = b[1] /\ a[2] < b[2])

\* The value of a pair known to be below 2^31.
IntOfU32(a) == a[1] * 65536 + a[2]

\* be32toh of four bytes.
U32OfBytesBig(b) == <<b[1] * 256 + b[2], b[3] * 256 + b[4]>>

\* htobe32 as bytes.
BytesOfU32Big(a) ==
    <<a[1] \div 256, a[1] % 256, a[2] \div 256, a[2] % 256>>

\* htole16 as bytes, and le16toh.
BytesOfU16Little(n) == <<n % 256, n \div 256>>
U16OfBytesLittle(b) == b[1] + b[2] * 256

Min(a, b) == IF a < b THEN a ELSE b

(***************************************************************************)
(* Packet and ReadOnlyPacket: position, size and the bytes below size.     *)
(***************************************************************************)
EmptyPacket == [mPosition |-> 0, mSize |-> 0, mData |-> <<>>]

PacketOf(bytes) == [mPosition |-> 0, mSize |-> Len(bytes), mData |-> bytes]

\* ReadOnlyPacket::Left: mSize - mPosition in uint32_t.
Left(p) == SubU32(U32(p.mSize), U32(p.mPosition))

\* ReadOnlyPacket::Seek: throws only beyond MAX_PACKET_SIZE.
SeekThrows(p, pos) == MAX_PACKET_SIZE < pos
Seek(p, pos) == [p EXCEPT !.mPosition = pos]

\* ReadOnlyPacket::Skip with a uint32_t count.
SkipThrows(p, sz) ==
    /\ sz # U32(0)
    /\ LtU32(U32(MAX_PACKET_SIZE), AddU32(U32(p.mPosition), sz))
Skip(p, sz) ==
    IF sz = U32(0) THEN p
    ELSE [p EXCEPT !.mPosition = IntOfU32(AddU32(U32(p.mPosition), sz))]

\* The bounds check shared by the Peek and Read accessors.
ReadThrows(p, n) == (p.mPosition + n) > p.mSize
BytesAt(p, n) == SubSeq(p.mData, p.mPosition + 1, p.mPosition + n)

PeekU32Big(p) == U32OfBytesBig(BytesAt(p, 4))
ReadU16Little(p) == U16OfBytesLittle(BytesAt(p, 2))

\* ReadOnlyPacket::ReadArray: the bounds check in uint32_t, then Skip.
ReadArrayThrows(p, sz) ==
    /\ sz # U32(0)
    /\ \/ LtU32(U32(p.mSize), AddU32(U32(p.mPosition), sz))
       \/ SkipThrows(p, sz)
ReadArray(p, sz) == IF sz = U32(0) THEN <<>> ELSE BytesAt(p, IntOfU32(sz))

\* Packet::Clear.
Clear(p) == [p EXCEPT !.mPosition = 0, !.mSize = 0, !.mData = <<>>]

\* ReadOnlyPacket(other, start, size): a view of part of another packet.
SubPacketThrows(other, start, size) == (start + size) > other.mSize
SubPacket(other, start, size) ==
    [mPosition |-> 0, mSize |-> size,
     mData |-> SubSeq(other.mData, start + 1, start + size)]

(***************************************************************************)
(* Strings of hexadecimal digits and the OpenSSL big numbers behind them.  *)
(* A big number is zero, a power of two 2^k, or an opaque digit string;    *)
(* the private exponents of the model are small enough that every public   *)
(* value and shared secret is a power of two below the 1024-bit modulus,   *)
(* so g^x mod p is computed exactly.                                       *)
(***************************************************************************)
HexVal(c) ==
    IF c >= 48 /\ c <= 57 THEN c - 48
    ELSE IF c >= 65 /\ c <= 70 THEN c - 55
    ELSE IF c >= 97 /\ c <= 102 THEN c - 87
    ELSE -1

HexChar(d) == IF d < 10 THEN 48 + d ELSE 55 + d

Repeat(x, n) == [i \in 1..n |-> x]

BnZero == [kind |-> "zero"]
BnPow2(k) == [kind |-> "pow2", k |-> k]

Log2Digit(d) == IF d = 1 THEN 0 ELSE IF d = 2 THEN 1 ELSE IF d = 4 THEN 2 ELSE 3

\* The number a sequence of hex digit values denotes.
BnOfDigits(ds) ==
    LET nz == {i \in 1..Len(ds) : ds[i] # 0} IN
    IF nz = {} THEN BnZero
    ELSE LET f == CHOOSE i \in nz : \A j \in nz : i <= j IN
         IF nz = {f} /\ ds[f] \in {1, 2, 4, 8}
         THEN BnPow2(4 * (Len(ds) - f) + Log2Digit(ds[f]))
         ELSE [kind |-> "big", digits |-> SubSeq(ds, f, Len(ds))]

\* BN_hex2bn: the leading hex digits of the string; the count parsed is the
\* return value, and a count of zero is failure.
HexPrefixLen(str) ==
    LET bad == {i \in 1..Len(str) : HexVal(str[i]) < 0} IN
    IF bad = {} THEN Len(str)
    ELSE (CHOOSE i \in bad : \A j \in bad : i <= j) - 1

BN_hex2bn(str) ==
    LET n == HexPrefixLen(str) IN
    [count |-> n, bn |-> BnOfDigits([i \in 1..n |-> HexVal(str[i])])]

BitsOfDigit(d) == IF d >= 8 THEN 4 ELSE IF d >= 4 THEN 3 ELSE IF d >= 2 THEN 2 ELSE 1

BN_num_bits(bn) ==
    IF bn.kind = "zero" THEN 0
    ELSE IF bn.kind = "pow2" THEN bn.k + 1
    ELSE 4 * (Len(bn.digits) - 1) + BitsOfDigit(bn.digits[1])

BN_num_bytes(bn) == (BN_num_bits(bn) + 7) \div 8

\* BN_bn2hex: upper-case digits, a whole number of bytes.
BN_bn2hex(bn) ==
    LET ds == IF bn.kind = "zero" THEN <<0>>
              ELSE IF bn.kind = "pow2"
                   THEN <<2 ^ (bn.k % 4)>> \o Repeat(0, bn.k \div 4)
                   ELSE bn.digits
        even == IF Len(ds) % 2 = 1 THEN <<0>> \o ds ELSE ds
    IN  [i \in 1..Len(even) |-> HexChar(even[i])]

\* BN_bn2bin of a power of two: big-endian, no leading zero bytes.
BN_bn2bin(bn) ==
    IF bn.kind = "pow2" THEN <<2 ^ (bn.k % 8)>> \o Repeat(0, bn.k \div 8)
    ELSE <<>>

\* String::Length: the bytes that are not UTF-8 continuation bytes.
StringLength(s) == Cardinality({i \in 1..Len(s) : s[i] < 128 \/ s[i] > 191})

\* String::RightJustified.
RightJustified(s, width, fill) ==
    IF StringLength(s) < width
    THEN Repeat(fill, width - StringLength(s)) \o s ELSE s

(***************************************************************************)
(* Diffie-Hellman contexts.  NullDH is the null pointer; a context holds   *)
(* the modulus p, the base g, and the private and public key once          *)
(* generated (priv = 0 and pub = NoKey before).                            *)
(***************************************************************************)
\* The 1024-bit modulus DH_generate_parameters_ex produced for the server.
DhPrime ==
    [kind |-> "big",
     digits |-> <<15>> \o Repeat(0, DH_KEY_HEX_SIZE - 2) \o <<3>>]

NoKey == [kind |-> "none"]
NullDH == [null |-> TRUE]

DH_size(dh) == BN_num_bytes(dh.p)

\* TcpServer::LoadDiffieHellman(const String&).
LoadDiffieHellman(prime) ==
    IF DH_KEY_HEX_SIZE = StringLength(prime)
    THEN LET p == BN_hex2bn(prime)
             dh == [p |-> p.bn, g |-> BnPow2(1), priv |-> 0, pub |-> NoKey]
         IN  IF p.count <= 0 \/ DH_SHARED_DATA_SIZE # DH_size(dh)
             THEN NullDH ELSE dh
    ELSE NullDH

\* TcpServer::CopyDiffieHellman: p and g are duplicated, the keys are not.
CopyDiffieHellman(dh) ==
    IF dh # NullDH
    THEN [p |-> dh.p, g |-> dh.g, priv |-> 0, pub |-> NoKey]
    ELSE NullDH

\* TcpConnection::GetDiffieHellmanPrime.
GetDiffieHellmanPrime(dh) ==
    IF dh # NullDH
    THEN LET prime == BN_bn2hex(dh.p) IN
         IF DH_KEY_HEX_SIZE # StringLength(prime) THEN <<>> ELSE prime
    ELSE <<>>

\* DH_generate_key: keeps a private key already there, else takes the
\* random draw x; the public key is g^x mod p = 2^x.
DH_generate_key(dh, x) ==
    LET priv == IF dh.priv # 0 THEN dh.priv ELSE x IN
    [dh EXCEPT !.priv = priv, !.pub = BnPow2(priv)]

\* TcpConnection::GenerateDiffieHellmanPublic: the context after the call
\* and the string returned.
GenerateDiffieHellmanPublic(dh, x) ==
    IF dh # NullDH
    THEN LET d == DH_generate_key(dh, x) IN
         [dh |-> d,
          str |-> RightJustified(BN_bn2hex(d.pub), DH_KEY_HEX_SIZE, 48)]
    ELSE [dh |-> dh, str |-> <<>>]

\* DH_compute_key: the bytes of peer^priv mod p, or <<>> (a return of -1)
\* for a peer value DH_check_pub_key refuses (not in 2..p-2).
DH_compute_key(pub, dh) ==
    IF pub.kind = "pow2" /\ pub.k >= 1 /\ pub.k * dh.priv <= BN_num_bits(dh.p) - 2
    THEN BN_bn2bin(BnPow2(pub.k * dh.priv))
    ELSE <<>>

\* TcpConnection::GenerateDiffieHellmanSharedData.  The vector returned
\* has DH_SHARED_DATA_SIZE bytes; DH_compute_key wrote only the first
\* Len(known) of them.
NoSharedData == [size |-> 0, known |-> <<>>]

GenerateDiffieHellmanSharedData(dh, otherPublic) ==
    IF /\ dh # NullDH
       /\ dh.pub # NoKey
       /\ DH_SHARED_DATA_SIZE = DH_size(dh)
       /\ DH_KEY_HEX_SIZE = StringLength(otherPublic)
    THEN LET other == BN_hex2bn(otherPublic)
             secret == DH_compute_key(other.bn, dh)
         IN  IF 0 < other.count /\ BF_NET_KEY_BYTE_SIZE <= Len(secret)
             THEN [size |-> DH_SHARED_DATA_SIZE, known |-> secret]
             ELSE NoSharedData
    ELSE NoSharedData

(***************************************************************************)
(* Blowfish.  BF_set_key keeps the key bytes; BF_encrypt and BF_decrypt    *)
(* are a keyed permutation of the 8-byte block and its inverse.            *)
(***************************************************************************)
NoBfKey == <<>>

RECURSIVE SumSeq(_)
SumSeq(s) == IF s = <<>> THEN 0 ELSE s[1] + SumSeq(Tail(s))

BF_encrypt(key, blk) == [i \in 1..8 |-> (blk[i] + SumSeq(key) + i) % 256]
BF_decrypt(key, blk) == [i \in 1..8 |-> (blk[i] + 512 * 8 - SumSeq(key) - i) % 256]

\* TcpConnection::SetEncryptionKey: the first BF_NET_KEY_BYTE_SIZE bytes.
SetEncryptionKey(oldKey, data) ==
    IF BF_NET_KEY_BYTE_SIZE <= data.size
    THEN SubSeq(data.known, 1, BF_NET_KEY_BYTE_SIZE)
    ELSE oldKey

\* Decrypt::Encrypt and Decrypt::Decrypt over dataSize bytes: every full
\* block, and nothing at all when dataSize is not a multiple of the block.
RECURSIVE EncryptBlocks(_, _)
EncryptBlocks(key, data) ==
    IF Len(data) < BLOWFISH_BLOCK_SIZE THEN data
    ELSE BF_encrypt(key, SubSeq(data, 1, 8))
         \o EncryptBlocks(key, SubSeq(data, 9, Len(data)))

RECURSIVE DecryptBlocks(_, _)
DecryptBlocks(key, data) ==
    IF Len(data) < BLOWFISH_BLOCK_SIZE THEN data
    ELSE BF_decrypt(key, SubSeq(data, 1, 8))
         \o DecryptBlocks(key, SubSeq(data, 9, Len(data)))

Encrypt(key, data) ==
    IF Len(data) % BLOWFISH_BLOCK_SIZE = 0 THEN EncryptBlocks(key, data) ELSE data

Decrypt(key, data) ==
    IF Len(data) % BLOWFISH_BLOCK_SIZE = 0 THEN DecryptBlocks(key, data) ELSE data

\* Decrypt::DecryptPacket: in place, over the padded size the header names.
DecryptPacket(key, p) ==
    IF 2 * 4 + BLOWFISH_BLOCK_SIZE <= p.mSize
    THEN LET paddedSize == IntOfU32(U32OfBytesBig(SubSeq(p.mData, 1, 4)))
             body == SubSeq(p.mData, 9, 8 + paddedSize)
             rest == SubSeq(p.mData, 9 + paddedSize, p.mSize)
         IN  [p EXCEPT !.mPosition = 4,
                       !.mData = SubSeq(p.mData, 1, 8) \o Decrypt(key, body) \o rest]
    ELSE p

(***************************************************************************)
(* Connections.  mSocket is the asio socket as the connection sees it:     *)
(* open (connected), rx the bytes that arrived and were not yet read, recv *)
(* the size of the outstanding async_receive (0: none), send the number of *)
(* outstanding async_send operations, connect the async_connect, aborted   *)
(* the handlers of cancelled or refused operations still to be run.        *)
(***************************************************************************)
ClosedSocket ==
    [open |-> FALSE, rx |-> <<>>, recv |-> U32(0), send |-> 0,
     connect |-> "none", aborted |-> 0]

\* LobbyConnection(io_service): a client-role connection.
ClientConnection ==
    [mRole |-> "ROLE_CLIENT", mStatus |-> "STATUS_NOT_CONNECTED",
     mPacketParser |-> "nullptr", mDiffieHellman |-> NullDH,
     mEncryptionKey |-> NoBfKey, mReceivedPacket |-> EmptyPacket,
     mOutgoingPackets |-> <<>>, mSelf |-> "null", mMessageQueue |-> "nullptr",
     mSocket |-> ClosedSocket]

\* LobbyConnection(socket, pDiffieHellman): a server-role connection.
ServerConnection(pDiffieHellman) ==
    [ClientConnection EXCEPT !.mRole = "ROLE_SERVER",
                             !.mStatus = "STATUS_CONNECTED",
                             !.mDiffieHellman = pDiffieHellman,
                             !.mSocket.open = TRUE]

\* The history kept beside a connection: frames in the order SendPacket
\* queued them, frames in the order async_send took them, exceptions
\* caught in and escaped from the receive handler, the frames handed to
\* the command parser and the last of them decrypted, and whether the
\* connection was ever encrypted, and encrypted since it last connected;
\* the status the connection had when it was last made Encrypted and the
\* shared data its key was then set from; the LOG_ERROR lines written by
\* the handler that ran last on the connection.
NoHistory ==
    [enq |-> <<>>, issued |-> <<>>, caught |-> 0,
     escaped |-> FALSE, parses |-> 0, lastFrame |-> <<>>,
     everEncrypted |-> FALSE, encryptedSinceConnect |-> FALSE,
     encryptedFrom |-> "none", sharedData |-> [size |-> 0, known |-> <<>>],
     errorLines |-> 0, sentConnected |-> {}]

(***************************************************************************)
(* A handler runs on a context h: the connection c, the message queue q    *)
(* and the history g; threw says an exception is propagating.              *)
(***************************************************************************)
Ctx(id, c, q, g) == [id |-> id, c |-> c, q |-> q, g |-> g, threw |-> FALSE]

\* LOG_ERROR: one line of the error log.
LogError(h) == [h EXCEPT !.g.errorLines = @ + 1]

\* TcpConnection::SocketError: the message, when it is not empty, is
\* logged; close() cancels every outstanding operation.
TcpSocketError(h, errorMessage) ==
    LET s == h.c.mSocket
        closed == [s EXCEPT !.open = FALSE, !.rx = <<>>, !.recv = U32(0),
                            !.send = 0,
                            !.connect = IF s.connect = "pending"
                                        THEN "aborted" ELSE s.connect,
                            !.aborted = s.aborted + s.send
                                        + (IF s.recv # U32(0) THEN 1 ELSE 0)]
        logged == IF errorMessage # "" THEN LogError(h) ELSE h
    IN  [logged EXCEPT !.c.mSocket = closed,
                       !.c.mStatus = "STATUS_NOT_CONNECTED"]

\* Variant: SocketError of the base class only: the parser stays.
SocketError_KeepParser(h, errorMessage) ==
    TcpSocketError(h, errorMessage)

\* LobbyConnection::SocketError.
SocketError(h, errorMessage) ==
    [TcpSocketError(h, errorMessage) EXCEPT !.c.mPacketParser = "nullptr"]

\* TcpConnection::RequestPacket: the guard, computed in uint32_t.
RequestPacketOk(h, size) ==
    /\ size # U32(0)
    /\ ~LtU32(U32(MAX_PACKET_SIZE),
              AddU32(U32(h.c.mReceivedPacket.mSize), size))

\* async_receive and async_send on a socket that is not connected
\* complete with an error.
AsyncReceive(s, size) ==
    IF s.open THEN [s EXCEPT !.recv = size] ELSE [s EXCEPT !.aborted = @ + 1]

RequestPacket(h, size) ==
    IF RequestPacketOk(h, size)
    THEN [h EXCEPT !.c.mSocket = AsyncReceive(@, size)]
    ELSE h

\* if(!RequestPacket(size)) SocketError("Failed to request more data.");
RequestOrFail(h, size) ==
    IF RequestPacketOk(h, size) THEN RequestPacket(h, size)
    ELSE SocketError(h, "Failed to request more data.")

\* TcpConnection::SendNextPacket.
SendNextPacket(h) ==
    IF h.c.mOutgoingPackets # <<>>
    THEN IF h.c.mSocket.open
         THEN [h EXCEPT !.c.mSocket.send = @ + 1,
                        !.g.issued = Append(@, Head(h.c.mOutgoingPackets))]
         ELSE [h EXCEPT !.c.mSocket.aborted = @ + 1]
    ELSE h

\* Variant: Every caller of SendPacket takes itself for the first.
FirstPacket_Always(c) == TRUE

\* TcpConnection::SendPacket: the part under the lock, and the whole call.
FirstPacket(c) == c.mOutgoingPackets = <<>>

\* Variant: push_front instead of push_back.
PushPacket_Front(h, packet) ==
    [h EXCEPT !.c.mOutgoingPackets = <<packet>> \o @,
              !.g.enq = Append(@, packet)]

\* sentConnected keeps the frames that were passed to SendPacket while the
\* connection was connected.
PushPacket(h, packet) ==
    [h EXCEPT !.c.mOutgoingPackets = Append(@, packet),
              !.g.enq = Append(@, packet),
              !.g.sentConnected =
                  IF h.c.mStatus = "STATUS_CONNECTED"
                  THEN @ \cup {packet} ELSE @]

SendPacket(h, packet) ==
    IF FirstPacket(h.c) THEN SendNextPacket(PushPacket(h, packet))
    ELSE PushPacket(h, packet)

\* Packet::WriteU32Big and WriteString32Big as the bytes they append.
WriteU32Big(n) == BytesOfU32Big(U32(n))
WriteString32Big(str) == WriteU32Big(Len(str)) \o str

\* ReadOnlyPacket::ReadU32Big and ReadString32Big: the value and the packet
\* after the read.
ReadU32Big(p) == [v |-> PeekU32Big(p), p |-> Seek(p, p.mPosition + 4)]

ReadString32Big(p) ==
    LET sz == ReadU32Big(p) IN
    [v |-> ReadArray(sz.p, sz.v), p |-> Skip(sz.p, sz.v)]

ClientStartSize == Len(DH_BASE_STRING) + 2 * DH_KEY_HEX_SIZE + 4 * 4

\* LobbyConnection::ConnectionSuccess.
ConnectionSuccess(h) ==
    IF h.c.mRole = "ROLE_CLIENT"
    THEN LET a == [h EXCEPT !.c.mPacketParser = "ParseClientEncryptionStart",
                            !.g.encryptedSinceConnect = FALSE]
             b == SendPacket(a, WriteU32Big(1) \o WriteU32Big(8))
         IN  RequestOrFail(b, U32(ClientStartSize))
    ELSE RequestOrFail(
             [h EXCEPT !.c.mPacketParser = "ParseServerEncryptionStart",
                       !.g.encryptedSinceConnect = FALSE],
             U32(2 * 4))

\* LobbyConnection::ConnectionEncrypted.
ConnectionEncrypted(h) == RequestOrFail(h, U32(2 * 4))

\* Variant: NowEncrypted without the change of parser.
NowEncrypted_KeepParser(h, sharedData) ==
    ConnectionEncrypted(
        [h EXCEPT !.c.mEncryptionKey = SetEncryptionKey(@, sharedData),
                  !.c.mStatus = "STATUS_ENCRYPTED",
                  !.c.mReceivedPacket = Clear(@),
                  !.g.everEncrypted = TRUE,
                  !.g.encryptedSinceConnect = TRUE,
                  !.g.encryptedFrom = h.c.mStatus,
                  !.g.sharedData = sharedData])

\* The tail shared by the handshake parsers: key set, status Encrypted,
\* parser ParsePacket, buffer cleared, ConnectionEncrypted.
NowEncrypted(h, sharedData) ==
    ConnectionEncrypted(
        [h EXCEPT !.c.mEncryptionKey = SetEncryptionKey(@, sharedData),
                  !.c.mStatus = "STATUS_ENCRYPTED",
                  !.c.mPacketParser = "ParsePacket",
                  !.c.mReceivedPacket = Clear(@),
                  !.g.everEncrypted = TRUE,
                  !.g.encryptedSinceConnect = TRUE,
                  !.g.encryptedFrom = h.c.mStatus,
                  !.g.sharedData = sharedData])

\* Variant: the handshake parsers without the intermediate status.
WaitingEncryption_Skip(h) == h

\* mStatus = STATUS_WAITING_ENCRYPTION, as both first-stage parsers do on a
\* well-formed packet.
WaitingEncryption(h) == [h EXCEPT !.c.mStatus = "STATUS_WAITING_ENCRYPTION"]

ClearThenError(h, errorMessage) ==
    SocketError([h EXCEPT !.c.mReceivedPacket = Clear(@)], errorMessage)

(***************************************************************************)
(* The handshake parsers.  x is the draw DH_generate_key makes.            *)
(***************************************************************************)
\* LobbyConnection::ParseClientEncryptionStart.
ParseClientEncryptionStart(h, x) ==
    LET packet == h.c.mReceivedPacket IN
    IF ClientStartSize > packet.mSize
    THEN RequestOrFail(h, U32(ClientStartSize - packet.mSize))
    ELSE
      LET zero == ReadU32Big(packet)
          ok0 == zero.v = U32(0)
          h0 == IF ok0 THEN h
                ELSE SocketError(h, "Failed to parse encryption data.")
          ok1 == ok0 /\ PeekU32Big(zero.p) = U32(Len(DH_BASE_STRING))
          h1 == IF ok0 /\ ~ok1
                THEN SocketError(h0, "Failed to parse encryption base.")
                ELSE h0
          base == IF ok1 THEN ReadString32Big(zero.p)
                  ELSE [v |-> <<>>, p |-> zero.p]
          ok2 == ok1 /\ base.v = DH_BASE_STRING
          h2 == IF ok1 /\ ~ok2
                THEN SocketError(h1, "Failed to parse encryption base (not 2).")
                ELSE h1
          ok3 == ok2 /\ PeekU32Big(base.p) = U32(DH_KEY_HEX_SIZE)
          h3 == IF ok2 /\ ~ok3
                THEN SocketError(h2, "Failed to parse encryption prime.")
                ELSE h2
          prime == IF ok3 THEN ReadString32Big(base.p)
                   ELSE [v |-> <<>>, p |-> base.p]
          ok4 == ok3 /\ PeekU32Big(prime.p) = U32(DH_KEY_HEX_SIZE)
          h4 == IF ok3 /\ ~ok4
                THEN SocketError(h3, "Failed to parse encryption server public.")
                ELSE h3
          serverPublic == IF ok4 THEN ReadString32Big(prime.p)
                          ELSE [v |-> <<>>, p |-> prime.p]
      IN
      IF ok4 /\ Left(serverPublic.p) = U32(0)
      THEN LET clientPublic ==
                   GenerateDiffieHellmanPublic(LoadDiffieHellman(prime.v), x)
               sharedData ==
                   GenerateDiffieHellmanSharedData(clientPublic.dh, serverPublic.v)
               w == [WaitingEncryption(h4) EXCEPT
                         !.c.mDiffieHellman = clientPublic.dh]
           IN  IF \/ DH_KEY_HEX_SIZE # StringLength(clientPublic.str)
                  \/ DH_SHARED_DATA_SIZE # sharedData.size
               THEN ClearThenError(w, "Failed to generate encryption client public and shared data.")
               ELSE NowEncrypted(
                        SendPacket(w, WriteString32Big(clientPublic.str)),
                        sharedData)
      ELSE ClearThenError(h4, "Read too much data for packet.")

\* Variant: a greeting accepted whatever its second word.
GreetingOk_AnySecond(left, first, second) ==
    left = U32(0) /\ first = U32(1)

\* The test ParseServerEncryptionStart makes of the client's greeting.
GreetingOk(left, first, second) ==
    left = U32(0) /\ first = U32(1) /\ second = U32(8)

\* LobbyConnection::ParseServerEncryptionStart.
ParseServerEncryptionStart(h, x) ==
    LET packet == h.c.mReceivedPacket IN
    IF 2 * 4 > packet.mSize
    THEN RequestOrFail(h, U32(2 * 4 - packet.mSize))
    ELSE
      LET first == ReadU32Big(packet)
          second == ReadU32Big(first.p)
      IN
      IF GreetingOk(Left(second.p), first.v, second.v)
      THEN LET public == GenerateDiffieHellmanPublic(h.c.mDiffieHellman, x)
               reply == Repeat(0, 4)
                        \o WriteString32Big(DH_BASE_STRING)
                        \o WriteString32Big(
                               GetDiffieHellmanPrime(h.c.mDiffieHellman))
                        \o WriteString32Big(public.str)
               w == [WaitingEncryption(h) EXCEPT
                         !.c.mDiffieHellman = public.dh]
               sent == SendPacket(w, reply)
           IN  RequestOrFail(
                   [sent EXCEPT
                       !.c.mPacketParser = "ParseServerEncryptionFinish",
                       !.c.mReceivedPacket = Clear(@)],
                   U32(DH_KEY_HEX_SIZE + 4))
      ELSE ClearThenError(h, "Read too much data for packet.")

\* LobbyConnection::ParseServerEncryptionFinish.
ParseServerEncryptionFinish(h) ==
    LET packet == h.c.mReceivedPacket IN
    IF DH_KEY_HEX_SIZE + 4 > packet.mSize
    THEN RequestOrFail(h, U32(DH_KEY_HEX_SIZE + 4 - packet.mSize))
    ELSE
      LET ok == PeekU32Big(packet) = U32(DH_KEY_HEX_SIZE)
          h0 == IF ok THEN h
                ELSE SocketError(h, "Failed to parse encryption client public.")
          clientPublic == IF ok THEN ReadString32Big(packet)
                          ELSE [v |-> <<>>, p |-> packet]
      IN
      IF ok /\ Left(clientPublic.p) = U32(0)
      THEN LET sharedData == GenerateDiffieHellmanSharedData(
                                 h0.c.mDiffieHellman, clientPublic.v)
           IN  IF DH_SHARED_DATA_SIZE # sharedData.size
               THEN ClearThenError(h0, "Failed to generate shared data.")
               ELSE NowEncrypted(h0, sharedData)
      ELSE ClearThenError(h0, "Read too much data for packet.")

(***************************************************************************)
(* The frame parser.                                                       *)
(***************************************************************************)
\* Variant: push_front instead of push_back.
Enqueue_Front(q, item) == <<item>> \o q

\* MessageQueue::Enqueue.
Enqueue(q, item) == Append(q, item)

\* Message::Packet(connection, commandCode, packet): the packet member is
\* copy-constructed.  wire is not part of the program: the frame (by
\* count) and the offset in it the command was decoded from, and the bytes
\* of its body.
MessagePacket(connection, commandCode, packet, wire) ==
    [mConnection |-> connection, mCommandCode |-> commandCode,
     mPacket |-> packet, wire |-> wire]

\* The packet ParsePacket hands to Message::Packet for one decoded command:
\* copy, the whole frame positioned after the command's header.  The view
\* of the body, command, is constructed and not used.
CommandPacket(copy, commandStart, commandSize) == copy

\* Where on the wire a command was.
WireOf(h, copy, commandStart, commandSize) ==
    [frame |-> h.g.parses, start |-> commandStart,
     body |-> SubSeq(copy.mData, commandStart + 5, commandStart + commandSize)]

\* Variant: The leftover bytes are never compared with the padding.
ExtraData_Never(copy) == FALSE

\* The check after the command loop of ParsePacket(packet, paddedSize,
\* realSize): is a frame whose padding was skipped still an error?
ExtraData(copy) == Left(copy) # U32(0)

\* The body check of one command: not enough bytes left for its data.
CommandDataMissing(copy, commandSize) ==
    LtU32(Left(copy), U32(commandSize - 2 * 2))

\* The while loop of ParsePacket(packet, paddedSize, realSize) with what
\* follows it; copy is the read-only copy of the decrypted frame.
RECURSIVE ParseCommands(_, _, _)
ParseCommands(h, copy, padding) ==
    IF LtU32(padding, Left(copy))
    THEN
      IF LtU32(Left(copy), U32(3 * 2))
      THEN SocketError(h, "Corrupt packet (not enough data for command header).")
      ELSE
        LET skipped == Skip(copy, U32(2))
            commandStart == skipped.mPosition
            commandSize == ReadU16Little(skipped)
            atCode == Seek(skipped, commandStart + 2)
            commandCode == ReadU16Little(atCode)
            read == Seek(atCode, commandStart + 4)
        IN
        IF commandSize < 2 * 2
        THEN SocketError(h, "Corrupt packet (not enough data for command).")
        ELSE IF CommandDataMissing(read, commandSize)
        THEN SocketError(h, "Corrupt packet (not enough data for command data).")
        ELSE IF h.c.mMessageQueue = "nullptr"
        THEN SocketError(h, "No message queue for packet.")
        ELSE IF h.c.mSelf # h.id
        THEN SocketError(h, "Failed to obtain a shared pointer.")
        ELSE IF SeekThrows(read, commandStart + commandSize)
        THEN [h EXCEPT !.threw = TRUE,
                       !.q = Enqueue(@, MessagePacket(h.id, commandCode,
                                 CommandPacket(read, commandStart, commandSize),
                                 WireOf(h, read, commandStart, commandSize)))]
        ELSE ParseCommands(
                 [h EXCEPT !.q = Enqueue(@, MessagePacket(h.id, commandCode,
                                 CommandPacket(read, commandStart, commandSize),
                                 WireOf(h, read, commandStart, commandSize)))],
                 Seek(read, commandStart + commandSize),
                 padding)
    ELSE
      IF SkipThrows(copy, padding) THEN [h EXCEPT !.threw = TRUE]
      ELSE IF ExtraData(Skip(copy, padding))
           THEN SocketError(h, "Corrupt packet has extra data.")
           ELSE h

\* Variant: no padding when the real size is above the padded size.
Padding_Clamped(paddedSize, realSize) ==
    IF LtU32(paddedSize, realSize) THEN U32(0)
    ELSE SubU32(paddedSize, realSize)

\* uint32_t padding = paddedSize - realSize.
Padding(paddedSize, realSize) == SubU32(paddedSize, realSize)

\* LobbyConnection::ParsePacket(packet, paddedSize, realSize).
ParsePacketSizes(h, paddedSize, realSize) ==
    LET packet == DecryptPacket(h.c.mEncryptionKey, h.c.mReceivedPacket)
        copy == Seek(packet, 2 * 4)
        padding == Padding(paddedSize, realSize)
    IN  ParseCommands(
            [h EXCEPT !.c.mReceivedPacket = packet,
                      !.g.parses = @ + 1,
                      !.g.lastFrame = packet.mData],
            copy, padding)

\* (paddedSize + 2 * sizeof(uint32_t)) > packet.Size(), computed in size_t.
FrameIncomplete(paddedSize, size) ==
    paddedSize[1] > 0 \/ paddedSize[2] + 2 * 4 > size

\* LobbyConnection::ParsePacket(packet).
ParsePacket(h) ==
    LET packet == h.c.mReceivedPacket IN
    IF h.c.mStatus = "STATUS_ENCRYPTED"
    THEN IF 2 * 4 > packet.mSize
         THEN RequestOrFail(h, U32(2 * 4 - packet.mSize))
         ELSE LET paddedSize == ReadU32Big(packet)
                  realSize == ReadU32Big(paddedSize.p)
              IN  IF FrameIncomplete(paddedSize.v, packet.mSize)
                  THEN RequestOrFail(
                           [h EXCEPT !.c.mReceivedPacket = realSize.p],
                           SubU32(AddU32(paddedSize.v, U32(2 * 4)),
                                  U32(packet.mSize)))
                  ELSE LET parsed == ParsePacketSizes(h, paddedSize.v,
                                                      realSize.v)
                       IN  IF parsed.threw THEN parsed
                           ELSE [parsed EXCEPT !.c.mReceivedPacket = Clear(@)]
    ELSE ClearThenError(h, "Connection should be encrypted but isn't.")

\* LobbyConnection::PacketReceived: the parser call in its try block.
CallParser(h, x) ==
    IF h.c.mPacketParser = "ParseClientEncryptionStart"
    THEN ParseClientEncryptionStart(h, x)
    ELSE IF h.c.mPacketParser = "ParseServerEncryptionStart"
    THEN ParseServerEncryptionStart(h, x)
    ELSE IF h.c.mPacketParser = "ParseServerEncryptionFinish"
    THEN ParseServerEncryptionFinish(h)
    ELSE ParsePacket(h)

\* What PacketReceived does with an exception thrown by the parser:
\* e.Log(), which is one LOG_ERROR, and SocketError().
Catch(h) ==
    SocketError(LogError([h EXCEPT !.threw = FALSE, !.g.caught = @ + 1]), "")

PacketReceived(h, x) ==
    IF h.c.mPacketParser # "nullptr"
    THEN LET r == CallParser(h, x) IN
         IF r.threw THEN Catch(r) ELSE r
    ELSE h

(***************************************************************************)
(* The system: one client-role connection c1, made by the application and  *)
(* connected with Connect, and one server-role connection s1, made by the  *)
(* server's accept handler; each talks to a remote peer of its own.  The   *)
(* handlers run on the one thread of the io_service; SendPacket,           *)
(* Connect, SetSelf and SetMessageQueue are called from other threads.     *)
(* In one run the peer and the application of one connection, focus, are   *)
(* active; the other connection exists beside it.                          *)
(***************************************************************************)
Conns == {"c1", "s1"}
Threads == {"t1", "t2"}

\* The private exponents DH_generate_key draws, and those of the peers.
ConnPrivs == {7, 9}
RemotePrivs == {7}

VARIABLES
    conn,       \* the LobbyConnection objects
    hist,       \* the history of each connection
    mQueue,     \* the MessageQueue the connections feed
    server,     \* the TcpServer: mDiffieHellman, mConnections, accepting
    remote,     \* the peers: private exponent, messages sent on this session
    app,        \* each application thread: "idle", or the connection it
                \* pushed the first packet on and is about to send on
    io,         \* the io_service thread: "idle", the connection whose
                \* write completion is between its pop and SendNextPacket,
                \* or "terminated" once run() was left
    used,       \* how much of each bound is used up
    focus,      \* the connection with the active peer and application
    kx,         \* a key exchange between two Diffie-Hellman contexts
    ring,       \* a RingBuffer: how its construction ended and its members
    prod,       \* the producer thread: its position in Write
    cons,       \* the consumer thread: its position in Read
    tally,      \* calls made, bytes reported written and read, bytes read
    msgq,       \* a MessageQueue with the threads that call it
    pkt,        \* two Packet objects and the call made on them last
    lsn,        \* a TcpServer that accepts, with the heap of DH contexts
    dec         \* a process that runs the decrypt tool and draws session keys

connVars == <<conn, hist, mQueue, server, remote, app, io, used, focus>>
ringVars == <<ring, prod, cons, tally>>

\* What the connections leave alone, and what the key exchange, the ring
\* buffer, the message queue, the packets, the listener and the file
\* tools leave alone.
others == <<kx, ringVars, msgq, pkt, lsn, dec>>
notKx == <<connVars, ringVars, msgq, pkt, lsn, dec>>
notRing == <<connVars, kx, msgq, pkt, lsn, dec>>
notQueue == <<connVars, kx, ringVars, pkt, lsn, dec>>
notPacket == <<connVars, kx, ringVars, msgq, lsn, dec>>
notListener == <<connVars, kx, ringVars, msgq, pkt, dec>>
notDecrypt == <<connVars, kx, ringVars, msgq, pkt, lsn>>

vars == <<connVars, others>>

\* The exchange before its first step.
KxStart ==
    [stage |-> "start", server |-> NullDH, client |-> NullDH,
     prime |-> <<>>, serverPublic |-> <<>>, clientPublic |-> <<>>,
     clientData |-> <<>>, serverData |-> <<>>,
     clientKey |-> NoBfKey, serverKey |-> NoBfKey]

\* The threads that enqueue and the thread that dequeues.
Enqueuers == {"e1", "e2"}
Consumer == "k"

\* MessageQueue(): an empty list; no thread is in a call.  state is "ok"
\* until a call had undefined behaviour; call is the call the consumer is
\* in or made last; put is the order of the push_backs and got what the
\* dequeue calls handed out.
NoQueue ==
    [state |-> "ok", mQueue |-> <<>>,
     pc |-> [t \in Enqueuers \cup {Consumer} |-> "idle"],
     call |-> "none", put |-> <<>>, got |-> <<>>,
     enqueues |-> 0, dequeues |-> 0]

\* Packet a and Packet other as Packet() leaves them, and ReadOnlyPacket b:
\* mData maps the offsets written so far, counted from 1, to their bytes;
\* null says which mData pointers are nullptr.
\* state is "ok" until a call had undefined behaviour; last is the call
\* made last and calls counts them.
NoPackets ==
    [a |-> EmptyPacket, b |-> EmptyPacket, other |-> EmptyPacket,
     null |-> {}, state |-> "ok",
     last |-> [op |-> "Packet", sz |-> U32(0), threw |-> FALSE], calls |-> 0]

\* The accept completions a listener handles, and the addresses DH_new()
\* hands out; address 0 is nullptr.
MaxAccepts == 2
DhObjects == 1..(MaxAccepts + 1)

\* What is at an address before DH_new() returned it and after DH_free().
Unused == [free |-> "unused"]
Freed == [free |-> "freed"]

\* TcpServer after Start(): no parameters yet, no connection, one
\* async_accept outstanding.  heap maps the address of a DH context to
\* the context.
NoListener ==
    [mDiffieHellman |-> 0, heap |-> [d \in DhObjects |-> Unused],
     mConnections |-> <<>>, pending |-> TRUE, accepts |-> 0]

\* A file as LoadFile finds it: whether it can be opened, and its bytes.
NoFile == [good |-> FALSE, bytes |-> <<>>]

\* The decrypt tool before main() runs, and no session key drawn yet:
\* file is argv[1], data what DecryptFile returned, out what was written
\* to argv[2], status the exit status; urandom is what /dev/urandom gave
\* GenerateSessionKey and sessionKey what that returned.
NoDecrypt ==
    [pc |-> "start", file |-> NoFile, data |-> <<>>, out |-> <<>>,
     status |-> 0, urandom |-> NoFile, sessionKey |-> U32(0)]

\* No RingBuffer yet, and a thread between two calls.
NoRing ==
    [state |-> "none", requested |-> 0, mCapacity |-> 0, mCapacityMask |-> 0,
     mReadIndex |-> 0, mWriteIndex |-> 0, mBuffer |-> <<>>]

\* A thread in no call: pc says which call it is in, size is the size as
\* the call has it now (and the value the last call returned), at the
\* offset of the pointer Begin returned, data the bytes memcpy moves.
Idle ==
    [pc |-> "idle", size |-> 0, at |-> 0, data |-> <<>>,
     copied |-> FALSE, ended |-> FALSE]

Live(c) == c = "c1" \/ c \in {server.mConnections[i] : i \in 1..Len(server.mConnections)}

\* s1 before it is accepted stands for no object; nothing reads it.
Unborn == [ClientConnection EXCEPT !.mRole = "ROLE_SERVER"]

Init ==
    /\ conn = [c \in Conns |-> IF c = "c1" THEN ClientConnection ELSE Unborn]
    /\ hist = [c \in Conns |-> NoHistory]
    /\ mQueue = <<>>
    /\ server = [mDiffieHellman |-> NullDH, mConnections |-> <<>>,
                 accepting |-> TRUE]
    /\ remote = [c \in Conns |-> [priv |-> 0, sent |-> 0]]
    /\ app = [t \in Threads |-> "idle"]
    /\ io = "idle"
    /\ used = [peer |-> 0, connects |-> 0, sends |-> 0, partial |-> 0,
               faults |-> 0]
    /\ focus \in Conns
    /\ kx = KxStart
    /\ msgq = NoQueue
    /\ pkt = NoPackets
    /\ lsn = NoListener
    /\ dec = NoDecrypt
    /\ ring = NoRing
    /\ prod = Idle
    /\ cons = Idle
    /\ tally = [writes |-> 0, reads |-> 0, written |-> 0, read |-> 0,
                consumed |-> <<>>]

\* The context a handler of connection c starts on: it has logged nothing.
H(c) == Ctx(c, conn[c], mQueue, [hist[c] EXCEPT !.errorLines = 0])

Commit(c, h) ==
    /\ conn' = [conn EXCEPT ![c] = h.c]
    /\ hist' = [hist EXCEPT ![c] = h.g]
    /\ mQueue' = h.q
    /\ focus' = focus

Active(c) == Live(c) /\ c = focus

(***************************************************************************)
(* The remote peers.  A peer speaks its side of the protocol, well or      *)
(* badly: what it may send next depends on how many messages it has sent   *)
(* on this session.                                                        *)
(***************************************************************************)
HexOfPublic(y) == RightJustified(BN_bn2hex(BnPow2(y)), DH_KEY_HEX_SIZE, 48)

Greeting(first, base, public) ==
    WriteU32Big(first) \o WriteString32Big(base)
    \o WriteString32Big(BN_bn2hex(DhPrime)) \o WriteString32Big(public)

\* One command on the wire: the big-endian size, size_le, the code, the body.
Command(code, body) ==
    <<(Len(body) + 4) \div 256, (Len(body) + 4) % 256>>
    \o BytesOfU16Little(Len(body) + 4) \o BytesOfU16Little(code) \o body

\* The same with a size_le that is not the size of what follows.
CommandSized(sizeLe, code, body) ==
    <<0, 0>> \o BytesOfU16Little(sizeLe) \o BytesOfU16Little(code) \o body

\* The frames a peer may send, before encryption: one command; two
\* commands and padding; no command; a size_le below 4; a body running
\* past the end; two bytes left where four are padding; a real size above
\* the padded size.
FrameMenu ==
    { [padded |-> 8, real |-> 8, body |-> Command(257, <<170, 187>>)],
      [padded |-> 16, real |-> 13,
       body |-> Command(1, <<>>) \o Command(2, <<7>>) \o <<0, 0, 0>>],
      [padded |-> 0, real |-> 0, body |-> <<>>],
      [padded |-> 8, real |-> 8, body |-> CommandSized(3, 1, <<0, 0>>)],
      [padded |-> 8, real |-> 8, body |-> CommandSized(100, 1, <<0, 0>>)],
      [padded |-> 8, real |-> 4, body |-> Command(1, <<>>) \o <<0, 0>>],
      [padded |-> 0, real |-> 100, body |-> <<>>],
      [padded |-> 12, real |-> 12,
       body |-> Command(3, <<>>) \o Command(4, <<>>)] }

\* The key the peer of c derived from the public value c sent it.
RemoteKey(c) ==
    LET dh == conn[c].mDiffieHellman
        k == IF dh = NullDH THEN 0 ELSE dh.priv * remote[c].priv
    IN  SubSeq(BN_bn2bin(BnPow2(k)) \o Repeat(0, BF_NET_KEY_BYTE_SIZE),
               1, BF_NET_KEY_BYTE_SIZE)

Frame(key, f) ==
    WriteU32Big(f.padded) \o WriteU32Big(f.real) \o Encrypt(key, f.body)

\* A header announcing padded_size 0xFFFFFFF8, and after it one byte more
\* than the receive buffer has room for behind the header.
LongFrame ==
    BytesOfU32Big(<<65535, 65528>>) \o WriteU32Big(0)
        \o [i \in 1..(MAX_PACKET_SIZE - 2 * 4 + 1) |-> 0]

PeerMenu(c) ==
    IF remote[c].sent = 0 /\ conn[c].mRole = "ROLE_CLIENT"
    THEN { [priv |-> y, bytes |-> Greeting(0, DH_BASE_STRING, HexOfPublic(y))]
             : y \in RemotePrivs }
         \cup { [priv |-> 0,
                 bytes |-> Greeting(1, DH_BASE_STRING, HexOfPublic(9))],
                [priv |-> 0,
                 bytes |-> Greeting(0, DH_BASE_STRING,
                                    Repeat(48, DH_KEY_HEX_SIZE))] }
    ELSE IF remote[c].sent = 0
    THEN { [priv |-> 0, bytes |-> WriteU32Big(1) \o WriteU32Big(8)],
           [priv |-> 0, bytes |-> WriteU32Big(1) \o WriteU32Big(9)] }
    ELSE IF remote[c].sent = 1 /\ conn[c].mRole = "ROLE_SERVER"
    THEN { [priv |-> y, bytes |-> WriteString32Big(HexOfPublic(y))]
             : y \in RemotePrivs }
         \cup { [priv |-> 0,
                 bytes |-> WriteString32Big(Repeat(122, DH_KEY_HEX_SIZE))],
                [priv |-> 0,
                 bytes |-> WriteString32Big(Repeat(48, DH_KEY_HEX_SIZE))] }
    ELSE { [priv |-> remote[c].priv, bytes |-> Frame(RemoteKey(c), f)]
             : f \in FrameMenu }
         \cup { [priv |-> remote[c].priv, bytes |-> LongFrame] }

PeerSend(c) ==
    /\ io # "terminated"
    /\ Active(c)
    /\ conn[c].mSocket.open
    /\ conn[c].mSocket.rx = <<>>
    /\ used.peer < MaxPeerMsgs
    /\ \E m \in PeerMenu(c) :
         /\ conn' = [conn EXCEPT ![c].mSocket.rx = m.bytes]
         /\ remote' = [remote EXCEPT ![c] = [priv |-> m.priv, sent |-> @.sent + 1]]
    /\ used' = [used EXCEPT !.peer = @ + 1]
    /\ UNCHANGED <<hist, mQueue, server, app, io, focus>>
    /\ UNCHANGED others

(***************************************************************************)
(* The server's accept handler.                                            *)
(***************************************************************************)
\* TcpServer::GenerateDiffieHellman: the parameters, or a null pointer when
\* the library fails to generate or to check them.
GenerateDiffieHellman(ok) ==
    IF ok THEN [p |-> DhPrime, g |-> BnPow2(1), priv |-> 0, pub |-> NoKey]
    ELSE NullDH

\* LobbyServer::CreateConnection: construct, SetSelf, ConnectionSuccess.
CreateConnection(id, dh) ==
    ConnectionSuccess(
        Ctx(id, [ServerConnection(CopyDiffieHellman(dh)) EXCEPT !.mSelf = id],
            mQueue, hist[id]))

\* TcpServer::AcceptHandler.
AcceptHandler(errorCode, generated) ==
    /\ io = "idle"
    /\ server.accepting
    /\ ~Live("s1")
    /\ IF errorCode
       THEN /\ server' = [server EXCEPT !.accepting = FALSE]
            /\ UNCHANGED <<conn, hist, mQueue, focus>>
       ELSE LET dh == IF server.mDiffieHellman = NullDH
                      THEN GenerateDiffieHellman(generated)
                      ELSE server.mDiffieHellman
            IN  IF dh # NullDH
                THEN /\ server' = [server EXCEPT
                                     !.mDiffieHellman = dh,
                                     !.mConnections = Append(@, "s1")]
                     /\ Commit("s1", CreateConnection("s1", dh))
                ELSE /\ server' = [server EXCEPT !.accepting = FALSE]
                     /\ UNCHANGED <<conn, hist, mQueue, focus>>
    /\ UNCHANGED <<remote, app, io, used>>
    /\ UNCHANGED others

(***************************************************************************)
(* Connecting the client-role connection.                                  *)
(***************************************************************************)
\* TcpConnection::Connect, called by the application on a connection that
\* is not connected.
Connect(c) ==
    /\ conn[c].mRole = "ROLE_CLIENT"
    /\ Active(c)
    /\ conn[c].mStatus = "STATUS_NOT_CONNECTED"
    /\ conn[c].mSocket.connect = "none"
    /\ used.connects < MaxConnects
    /\ conn' = [conn EXCEPT ![c].mStatus = "STATUS_CONNECTING",
                            ![c].mSocket.connect = "pending"]
    /\ used' = [used EXCEPT !.connects = @ + 1]
    /\ UNCHANGED <<hist, mQueue, server, remote, app, io, focus>>
    /\ UNCHANGED others

\* The completion handler of async_connect.  The handlers of operations
\* cancelled earlier were queued before it.
ConnectHandler(c, errorCode) ==
    /\ io = "idle"
    /\ Live(c)
    /\ conn[c].mSocket.connect \in {"pending", "aborted"}
    /\ conn[c].mSocket.aborted = 0
    /\ ~errorCode => conn[c].mSocket.connect = "pending"
    /\ IF errorCode
       THEN /\ conn' = [conn EXCEPT ![c].mStatus = "STATUS_NOT_CONNECTED",
                                    ![c].mSocket.connect = "none"]
            /\ UNCHANGED <<hist, mQueue, remote, focus>>
       ELSE /\ Commit(c, ConnectionSuccess(
                   [H(c) EXCEPT !.c.mStatus = "STATUS_CONNECTED",
                                !.c.mSocket.connect = "none",
                                !.c.mSocket.open = TRUE]))
            /\ remote' = [remote EXCEPT ![c] = [priv |-> 0, sent |-> 0]]
    /\ UNCHANGED <<server, app, io, used>>
    /\ UNCHANGED others

(***************************************************************************)
(* The completion handlers of the socket operations.                       *)
(***************************************************************************)
\* Packet::Direct(sz) throws for a size above MAX_PACKET_SIZE or below the
\* position.
DirectThrows(p, sz) == sz > MAX_PACKET_SIZE \/ p.mPosition > sz

\* The bytes a receive of `size` can deliver out of `avail`.
Deliverable(size, avail) ==
    IF size[1] > 0 THEN avail ELSE Min(size[2], avail)

\* The socket wrote length bytes behind the mSize bytes of a buffer of
\* MAX_PACKET_SIZE bytes: past its end.  The write is undefined: the process
\* faults in it, or the handler runs on.
Overruns(p, length) == p.mSize + length > MAX_PACKET_SIZE

\* The handler of async_receive in TcpConnection::RequestPacket, on
\* success with length bytes.  An exception of Direct is not caught: it
\* leaves the handler and io_service::run.
ReceiveHandler(h, length, x) ==
    LET p == h.c.mReceivedPacket
        s == h.c.mSocket
        done == [h EXCEPT !.c.mSocket.recv = U32(0),
                          !.c.mSocket.rx = SubSeq(s.rx, length + 1, Len(s.rx))]
    IN  IF DirectThrows(p, p.mSize + length)
        THEN [done EXCEPT !.g.escaped = TRUE]
        ELSE PacketReceived(
                 [done EXCEPT !.c.mReceivedPacket =
                     [mPosition |-> 0, mSize |-> p.mSize + length,
                      mData |-> p.mData \o SubSeq(s.rx, 1, length)]],
                 x)

ReceiveComplete(c) ==
    /\ io = "idle"
    /\ Live(c)
    /\ conn[c].mSocket.open
    /\ conn[c].mSocket.recv # U32(0)
    /\ conn[c].mSocket.rx # <<>>
    /\ LET all == Deliverable(conn[c].mSocket.recv, Len(conn[c].mSocket.rx)) IN
       \E partial \in BOOLEAN, x \in ConnPrivs, faulted \in BOOLEAN :
         LET length == IF partial THEN PartialLen ELSE all
             h == ReceiveHandler(H(c), length, x)
         IN  /\ partial => PartialLen < all /\ used.partial < MaxPartialReads
             /\ faulted => Overruns(conn[c].mReceivedPacket, length)
             /\ IF faulted
                THEN UNCHANGED <<conn, hist, mQueue, focus>>
                ELSE Commit(c, h)
             /\ io' = IF faulted \/ h.g.escaped THEN "terminated" ELSE io
             /\ used' = [used EXCEPT !.partial = IF partial THEN @ + 1 ELSE @]
    /\ UNCHANGED <<server, remote, app>>
    /\ UNCHANGED others

\* The same handler with an error code: the peer closed or reset.
ReceiveError(c) ==
    /\ io = "idle"
    /\ Active(c)
    /\ conn[c].mSocket.open
    /\ conn[c].mSocket.recv # U32(0)
    /\ used.faults < MaxFaults
    /\ Commit(c, SocketError([H(c) EXCEPT !.c.mSocket.recv = U32(0)], ""))
    /\ used' = [used EXCEPT !.faults = @ + 1]
    /\ UNCHANGED <<server, remote, app, io>>
    /\ UNCHANGED others

\* The handler of async_send in TcpConnection::SendNextPacket, up to the
\* end of its locked block; full says all of the front packet was written.
SendHandler(h, full) ==
    LET done == [h EXCEPT !.c.mSocket.send = @ - 1] IN
    IF h.c.mOutgoingPackets = <<>> \/ ~full
    THEN SocketError(done, "")
    ELSE [done EXCEPT !.c.mOutgoingPackets = Tail(@)]

WriteComplete(c) ==
    /\ io = "idle"
    /\ Live(c)
    /\ conn[c].mSocket.open
    /\ conn[c].mSocket.send > 0
    /\ \E full \in BOOLEAN :
         /\ ~full => /\ conn[c].mOutgoingPackets # <<>>
                     /\ Len(Head(conn[c].mOutgoingPackets)) > 1
                     /\ used.faults < MaxFaults
         /\ Commit(c, SendHandler(H(c), full))
         /\ io' = IF full /\ Len(conn[c].mOutgoingPackets) > 1
                  THEN c ELSE "idle"
         /\ used' = [used EXCEPT !.faults = IF full THEN @ ELSE @ + 1]
    /\ UNCHANGED <<server, remote, app>>
    /\ UNCHANGED others

\* The rest of that handler: PacketSent, then SendNextPacket.
WriteCompleteNext(c) ==
    /\ io = c
    /\ Commit(c, SendNextPacket(H(c)))
    /\ io' = "idle"
    /\ UNCHANGED <<server, remote, app, used>>
    /\ UNCHANGED others

\* The same handler with an error code.
WriteError(c) ==
    /\ io = "idle"
    /\ Active(c)
    /\ conn[c].mSocket.open
    /\ conn[c].mSocket.send > 0
    /\ used.faults < MaxFaults
    /\ Commit(c, SocketError([H(c) EXCEPT !.c.mSocket.send = @ - 1], ""))
    /\ used' = [used EXCEPT !.faults = @ + 1]
    /\ UNCHANGED <<server, remote, app, io>>
    /\ UNCHANGED others

\* The handler of a receive or a send that was cancelled by close() or
\* started on a socket that is not connected.
AbortedHandler(c) ==
    /\ io = "idle"
    /\ Live(c)
    /\ conn[c].mSocket.aborted > 0
    /\ Commit(c, SocketError([H(c) EXCEPT !.c.mSocket.aborted = @ - 1], ""))
    /\ UNCHANGED <<server, remote, app, io, used>>
    /\ UNCHANGED others

(***************************************************************************)
(* The application threads.                                                *)
(***************************************************************************)
\* TcpConnection::SendPacket up to the end of its locked block.
AppSendPacket(t, c, max) ==
    /\ app[t] = "idle"
    /\ Active(c)
    /\ used.sends < max
    /\ Commit(c, PushPacket(H(c), <<200 + used.sends>>))
    /\ app' = [app EXCEPT ![t] = IF FirstPacket(conn[c]) THEN c ELSE "idle"]
    /\ used' = [used EXCEPT !.sends = @ + 1]
    /\ UNCHANGED <<server, remote, io>>
    /\ UNCHANGED others

\* The rest of SendPacket for the caller that pushed the first packet.
AppSendNextPacket(t) ==
    /\ app[t] # "idle"
    /\ Commit(app[t], SendNextPacket(H(app[t])))
    /\ app' = [app EXCEPT ![t] = "idle"]
    /\ UNCHANGED <<server, remote, io, used>>
    /\ UNCHANGED others

\* The lists BroadcastPacket is called with; "null" is an empty shared
\* pointer.
BroadcastLists == {<<"c1", "s1">>, <<"s1", "c1">>, <<"null", "s1", "c1">>}

\* Variant: only the first connection of the list is sent to.
BroadcastTo_FirstOnly(cs, connections, packet) ==
    LET named == SelectSeq(connections, LAMBDA c : c # "null")
        c == Head(named)
        h == SendPacket(Ctx(c, cs.conn[c], mQueue, cs.hist[c]), packet)
    IN  IF named = <<>> THEN cs
        ELSE [conn |-> [cs.conn EXCEPT ![c] = h.c],
              hist |-> [cs.hist EXCEPT ![c] = h.g]]

\* TcpConnection::BroadcastPacket(connections, ReadOnlyPacket&): SendPacket
\* on every connection of the list that is not null, in the order of the
\* list; cs holds the connections and their histories.  push_back(
\* std::move(packet)) in SendPacket copies: ReadOnlyPacket has no move
\* constructor.
RECURSIVE BroadcastTo(_, _, _)
BroadcastTo(cs, connections, packet) ==
    IF connections = <<>> THEN cs
    ELSE LET c == Head(connections)
             h == SendPacket(Ctx(c, cs.conn[c], mQueue, cs.hist[c]), packet)
         IN  IF c = "null" THEN BroadcastTo(cs, Tail(connections), packet)
             ELSE BroadcastTo([conn |-> [cs.conn EXCEPT ![c] = h.c],
                               hist |-> [cs.hist EXCEPT ![c] = h.g]],
                              Tail(connections), packet)

\* An application thread broadcasts a frame.
BroadcastPacket(t, connections) ==
    /\ app[t] = "idle"
    /\ used.sends < MaxAppSends
    /\ \A i \in 1..Len(connections) :
          connections[i] # "null" => Live(connections[i])
    /\ LET cs == BroadcastTo([conn |-> conn, hist |-> hist], connections,
                             <<200 + used.sends>>)
       IN  conn' = cs.conn /\ hist' = cs.hist
    /\ used' = [used EXCEPT !.sends = @ + 1]
    /\ UNCHANGED <<mQueue, server, remote, app, io, focus>>
    /\ UNCHANGED others

\* The application sets a connection up before any traffic on it.
BeforeTraffic(c) ==
    conn[c].mStatus \in {"STATUS_NOT_CONNECTED", "STATUS_CONNECTED"}

\* TcpConnection::SetSelf with the connection's own shared pointer.
SetSelf(c) ==
    /\ Active(c)
    /\ BeforeTraffic(c)
    /\ conn[c].mSelf = "null"
    /\ conn' = [conn EXCEPT ![c].mSelf = c]
    /\ UNCHANGED <<hist, mQueue, server, remote, app, io, used, focus>>
    /\ UNCHANGED others

\* LobbyConnection::SetMessageQueue.
SetMessageQueue(c) ==
    /\ Active(c)
    /\ BeforeTraffic(c)
    /\ conn[c].mMessageQueue = "nullptr"
    /\ conn' = [conn EXCEPT ![c].mMessageQueue = "queue"]
    /\ UNCHANGED <<hist, mQueue, server, remote, app, io, used, focus>>
    /\ UNCHANGED others

Next ==
    \/ \E errorCode \in BOOLEAN, generated \in BOOLEAN :
         AcceptHandler(errorCode, generated)
    \/ \E c \in Conns : Connect(c)
    \/ \E c \in Conns, errorCode \in BOOLEAN : ConnectHandler(c, errorCode)
    \/ \E c \in Conns : PeerSend(c)
    \/ \E c \in Conns : ReceiveComplete(c)
    \/ \E c \in Conns : ReceiveError(c)
    \/ \E c \in Conns : WriteComplete(c)
    \/ \E c \in Conns : WriteCompleteNext(c)
    \/ \E c \in Conns : WriteError(c)
    \/ \E c \in Conns : AbortedHandler(c)
    \/ \E c \in Conns : SetSelf(c)
    \/ \E c \in Conns : SetMessageQueue(c)

Spec == Init /\ [][Next]_vars

\* The send path alone: the application threads against the completion
\* handlers of the writes, with no peer traffic.
NextSend ==
    \/ \E errorCode \in BOOLEAN, generated \in BOOLEAN :
         AcceptHandler(errorCode, generated)
    \/ \E c \in Conns : Connect(c)
    \/ \E c \in Conns, errorCode \in BOOLEAN : ConnectHandler(c, errorCode)
    \/ \E c \in Conns : WriteComplete(c)
    \/ \E c \in Conns : WriteCompleteNext(c)
    \/ \E c \in Conns : WriteError(c)
    \/ \E c \in Conns : AbortedHandler(c)
    \/ \E t \in Threads, c \in Conns : AppSendPacket(t, c, MaxAppSends)
    \/ \E t \in Threads : AppSendNextPacket(t)

SpecSend == Init /\ [][NextSend]_vars

\* What the send path does by itself: a completion handler that is due
\* runs, and a thread inside SendPacket goes on to SendNextPacket.  Nothing
\* makes the application send or connect.
SendSteps ==
    \/ \E c \in Conns : WriteComplete(c)
    \/ \E c \in Conns : WriteCompleteNext(c)
    \/ \E c \in Conns : AbortedHandler(c)
    \/ \E t \in Threads : AppSendNextPacket(t)

SpecSendFair == SpecSend /\ WF_vars(SendSteps)

\* The send path with broadcasts: application threads that send on one
\* connection and that broadcast to both, against the write completions.
NextBroadcast ==
    \/ \E errorCode \in BOOLEAN, generated \in BOOLEAN :
         AcceptHandler(errorCode, generated)
    \/ \E c \in Conns : Connect(c)
    \/ \E c \in Conns, errorCode \in BOOLEAN : ConnectHandler(c, errorCode)
    \/ \E c \in Conns : WriteComplete(c)
    \/ \E c \in Conns : WriteCompleteNext(c)
    \/ \E c \in Conns : WriteError(c)
    \/ \E c \in Conns : AbortedHandler(c)
    \/ \E t \in Threads, c \in Conns : AppSendPacket(t, c, MaxAppSends)
    \/ \E t \in Threads : AppSendNextPacket(t)
    \/ \E t \in Threads, connections \in BroadcastLists :
         BroadcastPacket(t, connections)

SpecBroadcast == Init /\ [][NextBroadcast]_vars

\* The application sends on a connection once it is Encrypted.
AppSendEncrypted(t, c) ==
    /\ conn[c].mStatus = "STATUS_ENCRYPTED"
    /\ AppSendPacket(t, c, MaxEncSends)

\* The handshake, and then the application sending on the connection: peer
\* traffic and the application threads, without socket errors.
NextEnc ==
    \/ \E errorCode \in BOOLEAN, generated \in BOOLEAN :
         AcceptHandler(errorCode, generated)
    \/ \E c \in Conns : Connect(c)
    \/ \E c \in Conns, errorCode \in BOOLEAN : ConnectHandler(c, errorCode)
    \/ \E c \in Conns : PeerSend(c)
    \/ \E c \in Conns : ReceiveComplete(c)
    \/ \E c \in Conns : WriteComplete(c)
    \/ \E c \in Conns : WriteCompleteNext(c)
    \/ \E c \in Conns : AbortedHandler(c)
    \/ \E t \in Threads, c \in Conns : AppSendEncrypted(t, c)
    \/ \E t \in Threads : AppSendNextPacket(t)

SpecEnc == Init /\ [][NextEnc]_vars

\* The messages the peer of c sends in the handshake.
HandshakeLength(c) == IF conn[c].mRole = "ROLE_CLIENT" THEN 1 ELSE 2

\* The peer sends a message of the handshake.
PeerHandshake(c) == remote[c].sent < HandshakeLength(c) /\ PeerSend(c)

\* Frame bodies of 0 and 16 bytes: nothing, and two commands.
Bodies == { <<>>, Command(1, <<>>) \o Command(2, <<7, 7, 7, 7>>) }

\* The real sizes a header may announce, up to 2^32 - 1.
RealSizes ==
    { U32(14), U32(16), U32(17), <<32768, 0>>, <<65535, 65528>>,
      <<65535, 65535>> }

\* The frames of every body with every real size; padded_size is the
\* length of the body.
SizedFrames(key) ==
    { BytesOfU32Big(U32(Len(body))) \o BytesOfU32Big(realSize)
        \o Encrypt(key, body) : body \in Bodies, realSize \in RealSizes }

\* After the handshake the peer sends one of these frames, the first of
\* the session.
PeerSendSized(c) ==
    /\ io # "terminated"
    /\ Active(c)
    /\ remote[c].sent = HandshakeLength(c)
    /\ conn[c].mSocket.open
    /\ conn[c].mSocket.rx = <<>>
    /\ used.peer < MaxPeerMsgs
    /\ \E bytes \in SizedFrames(RemoteKey(c)) :
         conn' = [conn EXCEPT ![c].mSocket.rx = bytes]
    /\ remote' = [remote EXCEPT ![c].sent = @ + 1]
    /\ used' = [used EXCEPT !.peer = @ + 1]
    /\ UNCHANGED <<hist, mQueue, server, app, io, focus>>
    /\ UNCHANGED others

\* The receive path with frames of every announced real size, without
\* socket errors.
NextSized ==
    \/ \E errorCode \in BOOLEAN, generated \in BOOLEAN :
         AcceptHandler(errorCode, generated)
    \/ \E c \in Conns : Connect(c)
    \/ \E c \in Conns, errorCode \in BOOLEAN : ConnectHandler(c, errorCode)
    \/ \E c \in Conns : PeerHandshake(c)
    \/ \E c \in Conns : PeerSendSized(c)
    \/ \E c \in Conns : ReceiveComplete(c)
    \/ \E c \in Conns : WriteComplete(c)
    \/ \E c \in Conns : WriteCompleteNext(c)
    \/ \E c \in Conns : AbortedHandler(c)
    \/ \E c \in Conns : SetSelf(c)
    \/ \E c \in Conns : SetMessageQueue(c)

SpecSized == Init /\ [][NextSized]_vars

(***************************************************************************)
(* The key exchange between a server's and a client's Diffie-Hellman       *)
(* context, in the order of the three handshake packets.                   *)
(***************************************************************************)
\* The private exponents the two sides may draw, and the values the bytes
\* of an array that was never written may hold.
KxPrivs == {7, 8, 28, 30, 34, 36, 127}
StackBytes == {0, 255}

\* The vector GenerateDiffieHellmanSharedData returns, byte by byte: what
\* DH_compute_key wrote into sharedData[] and, behind it, what the array
\* held before.
SharedBytes(data, garbage) ==
    data.known \o Repeat(garbage, data.size - Len(data.known))

\* First packet: the server generates its parameters and its public value.
KxServerStart(x) ==
    /\ kx.stage = "start"
    /\ LET pServer == GenerateDiffieHellman(TRUE)
           public == GenerateDiffieHellmanPublic(pServer, x)
       IN  kx' = [kx EXCEPT !.stage = "sent",
                            !.server = public.dh,
                            !.prime = GetDiffieHellmanPrime(pServer),
                            !.serverPublic = public.str]
    /\ UNCHANGED notKx

\* Second packet: the client loads the prime, generates its public value,
\* computes the shared data and sets its key.
KxClient(y, garbage) ==
    /\ kx.stage = "sent"
    /\ LET public == GenerateDiffieHellmanPublic(LoadDiffieHellman(kx.prime), y)
           data == GenerateDiffieHellmanSharedData(public.dh, kx.serverPublic)
       IN  IF \/ DH_KEY_HEX_SIZE # StringLength(public.str)
              \/ DH_SHARED_DATA_SIZE # data.size
           THEN kx' = [kx EXCEPT !.stage = "failed", !.client = public.dh]
           ELSE kx' = [kx EXCEPT
                         !.stage = "replied",
                         !.client = public.dh,
                         !.clientPublic = public.str,
                         !.clientData = SharedBytes(data, garbage),
                         !.clientKey = SetEncryptionKey(kx.clientKey, data)]
    /\ UNCHANGED notKx

\* Third packet: the server computes its copy and sets its key.
KxServerFinish(garbage) ==
    /\ kx.stage = "replied"
    /\ LET data == GenerateDiffieHellmanSharedData(kx.server, kx.clientPublic)
       IN  IF DH_SHARED_DATA_SIZE # data.size
           THEN kx' = [kx EXCEPT !.stage = "failed"]
           ELSE kx' = [kx EXCEPT
                         !.stage = "done",
                         !.serverData = SharedBytes(data, garbage),
                         !.serverKey = SetEncryptionKey(kx.serverKey, data)]
    /\ UNCHANGED notKx

NextKx ==
    \/ \E x \in KxPrivs : KxServerStart(x)
    \/ \E y \in KxPrivs, garbage \in StackBytes : KxClient(y, garbage)
    \/ \E garbage \in StackBytes : KxServerFinish(garbage)

SpecKx == Init /\ [][NextKx]_vars

(***************************************************************************)
(* RingBuffer.  The producer thread calls Write and the consumer thread    *)
(* Read.  mReadIndex and mWriteIndex are plain int32_t members that one    *)
(* thread stores while the other loads them, with no lock, atomic or       *)
(* fence: between the copy of the bytes and the store of the index in one  *)
(* call nothing orders what the other thread sees, so the two take effect  *)
(* in either order.                                                        *)
(***************************************************************************)
\* sysconf(_SC_PAGE_SIZE), scaled down to keep the buffer small.
GetPageSize == 8

\* The capacities asked of the constructor, the sizes passed to Write and
\* Read (a count of bytes, and any int32_t), and the number of calls made.
RequestedCapacities == {0, 1, 2, 9, 17}
LegalSizes == {0, 3, 8}
AnySizes == LegalSizes \cup {-1}
MaxWrites == 3
MaxReads == 3

\* x & mask on two's complement integers, for a mask that is not negative.
RECURSIVE BitAnd(_, _)
BitAnd(x, mask) ==
    IF mask = 0 THEN 0
    ELSE (x % 2) * (mask % 2) + 2 * BitAnd(x \div 2, mask \div 2)

\* RingBuffer::IsMultipleOfTwo: exactly one of the low 31 bits is set.
RECURSIVE BitsSet(_, _)
BitsSet(value, i) ==
    IF i = 0 THEN 0 ELSE (value % 2) + BitsSet(value \div 2, i - 1)

IsMultipleOfTwo(value) == value > 0 /\ BitsSet(value, 31) = 1

\* The capacity after the rounding of the constructor.
RoundedCapacity(capacity) ==
    IF capacity % GetPageSize # 0
    THEN capacity + (GetPageSize - (capacity % GetPageSize))
    ELSE capacity

\* RingBuffer::RingBuffer; mapped says the calls that map the memory all
\* succeeded.
RingBuffer(capacity, mapped) ==
    IF 1 >= capacity
    THEN [NoRing EXCEPT !.state = "Capacity is not greater than one.",
                        !.requested = capacity]
    ELSE IF ~IsMultipleOfTwo(RoundedCapacity(capacity))
    THEN [NoRing EXCEPT !.state = "Capacity is not a multiple of two.",
                        !.requested = capacity]
    ELSE IF ~mapped
    THEN [NoRing EXCEPT !.state = "Failed to memory map ring buffer.",
                        !.requested = capacity,
                        !.mCapacity = RoundedCapacity(capacity),
                        !.mCapacityMask = RoundedCapacity(capacity) - 1]
    ELSE [state |-> "constructed", requested |-> capacity,
          mCapacity |-> RoundedCapacity(capacity),
          mCapacityMask |-> RoundedCapacity(capacity) - 1,
          mReadIndex |-> 0, mWriteIndex |-> 0,
          mBuffer |-> Repeat(0, RoundedCapacity(capacity))]

\* Variant: Free without the slot that tells full from empty.
Free_AllSlots(r) ==
    BitAnd(r.mReadIndex - r.mWriteIndex, r.mCapacityMask)

\* RingBuffer::Free, Available and Capacity.
Free(r) ==
    BitAnd(r.mReadIndex - r.mWriteIndex - 1, r.mCapacityMask)

Available(r) ==
    BitAnd(r.mCapacity - (r.mReadIndex - r.mWriteIndex), r.mCapacityMask)

Capacity(r) == r.mCapacity

\* Variant: the size asked for, whatever the room.
Granted_Uncapped(size, room) == size

\* size = std::min(size, free) and size = std::min(size, available).
Granted(size, room) == Min(size, room)

\* The byte of the file behind address mBuffer + offset: the file is
\* mapped at mBuffer and again at mBuffer + mCapacity.  Sequences count
\* from 1.
Mapped(r, offset) ==
    (IF offset >= r.mCapacity THEN offset - r.mCapacity ELSE offset) + 1

\* The bytes the producer passes to Write: its stream goes 1, 2, 3, ...
\* and each Write continues behind the bytes written so far.
Source(size) == [i \in 1..size |-> tally.written + i]

\* A call that has made both its copy and its index update returns.
Returned(t) ==
    IF t.copied /\ t.ended
    THEN [Idle EXCEPT !.size = t.size]
    ELSE t

Construct(capacity, mapped) ==
    /\ ring.state = "none"
    /\ ring' = RingBuffer(capacity, mapped)
    /\ UNCHANGED <<notRing, prod, cons, tally>>

\* Write up to the return of BeginWrite.
BeginWrite(size) ==
    /\ ring.state = "constructed"
    /\ prod.pc = "idle"
    /\ tally.writes < MaxWrites
    /\ LET granted == Granted(size, Free(ring)) IN
       prod' = [pc |-> "Write", size |-> granted, at |-> ring.mWriteIndex,
                data |-> Source(granted), copied |-> FALSE, ended |-> FALSE]
    /\ tally' = [tally EXCEPT !.writes = @ + 1]
    /\ UNCHANGED <<notRing, ring, cons>>

\* The memcpy of Write, made if 0 < size: the bytes reach the buffer.
CopyIn ==
    /\ prod.pc = "Write"
    /\ ~prod.copied
    /\ LET n == Len(prod.data) IN
       ring' = [ring EXCEPT !.mBuffer =
                  [k \in 1..Len(@) |->
                     IF \E i \in 1..n : Mapped(ring, prod.at + i - 1) = k
                     THEN prod.data[CHOOSE i \in 1..n :
                                        Mapped(ring, prod.at + i - 1) = k]
                     ELSE @[k]]]
    /\ prod' = Returned([prod EXCEPT !.copied = TRUE])
    /\ UNCHANGED <<notRing, cons, tally>>

\* EndWrite as Write calls it, and the return of Write.
EndWrite ==
    /\ prod.pc = "Write"
    /\ ~prod.ended
    /\ LET size == Granted(prod.size, Free(ring)) IN
       /\ ring' = [ring EXCEPT !.mWriteIndex =
                      BitAnd(@ + size, ring.mCapacityMask)]
       /\ prod' = Returned([prod EXCEPT !.size = size, !.ended = TRUE])
       /\ tally' = [tally EXCEPT !.written = @ + size]
    /\ UNCHANGED <<notRing, cons>>

\* Read up to the return of BeginRead.
BeginRead(size) ==
    /\ ring.state = "constructed"
    /\ cons.pc = "idle"
    /\ tally.reads < MaxReads
    /\ cons' = [pc |-> "Read", size |-> Granted(size, Available(ring)),
                at |-> ring.mReadIndex, data |-> <<>>,
                copied |-> FALSE, ended |-> FALSE]
    /\ tally' = [tally EXCEPT !.reads = @ + 1]
    /\ UNCHANGED <<notRing, ring, prod>>

\* The memcpy of Read, made if 0 < size: the bytes leave the buffer.
CopyOut ==
    /\ cons.pc = "Read"
    /\ ~cons.copied
    /\ LET data == [i \in 1..cons.size |->
                      ring.mBuffer[Mapped(ring, cons.at + i - 1)]]
       IN  /\ cons' = Returned([cons EXCEPT !.copied = TRUE])
           /\ tally' = [tally EXCEPT !.consumed = @ \o data]
    /\ UNCHANGED <<notRing, ring, prod>>

\* EndRead as Read calls it, and the return of Read.
EndRead ==
    /\ cons.pc = "Read"
    /\ ~cons.ended
    /\ LET size == Granted(cons.size, Available(ring)) IN
       /\ ring' = [ring EXCEPT !.mReadIndex =
                      BitAnd(@ + size, ring.mCapacityMask)]
       /\ cons' = Returned([cons EXCEPT !.size = size, !.ended = TRUE])
       /\ tally' = [tally EXCEPT !.read = @ + size]
    /\ UNCHANGED <<notRing, prod>>

\* The calls with the sizes drawn from Sizes.
NextRingOf(Sizes) ==
    \/ \E capacity \in RequestedCapacities, mapped \in BOOLEAN :
         Construct(capacity, mapped)
    \/ \E size \in Sizes : BeginWrite(size)
    \/ CopyIn
    \/ EndWrite
    \/ \E size \in Sizes : BeginRead(size)
    \/ CopyOut
    \/ EndRead

\* A producer and a consumer that pass counts of bytes.
NextRing == NextRingOf(LegalSizes)

SpecRing == Init /\ [][NextRing]_vars

\* A producer and a consumer that pass any size.
NextRingAny == NextRingOf(AnySizes)

SpecRingAny == Init /\ [][NextRingAny]_vars

\* The same threads on a machine that keeps each thread's copy and index
\* update in program order for the other thread.
NextRingOrdered ==
    \/ \E capacity \in RequestedCapacities, mapped \in BOOLEAN :
         Construct(capacity, mapped)
    \/ \E size \in LegalSizes : BeginWrite(size)
    \/ CopyIn
    \/ prod.copied /\ EndWrite
    \/ \E size \in LegalSizes : BeginRead(size)
    \/ CopyOut
    \/ cons.copied /\ EndRead

SpecRingOrdered == Init /\ [][NextRingOrdered]_vars

\* The sizes a consumer may pass to EndRead other than the one granted.
PassedSizes == {8}

\* EndRead called by a consumer that uses BeginRead and EndRead itself,
\* with the size it chooses to pass.
EndReadWith(passed) ==
    /\ cons.pc = "Read"
    /\ ~cons.ended
    /\ LET size == Granted(passed, Available(ring)) IN
       /\ ring' = [ring EXCEPT !.mReadIndex =
                      BitAnd(@ + size, ring.mCapacityMask)]
       /\ cons' = Returned([cons EXCEPT !.size = size, !.ended = TRUE])
       /\ tally' = [tally EXCEPT !.read = @ + size]
    /\ UNCHANGED <<notRing, prod>>

\* A producer that calls Write and a consumer that calls BeginRead and
\* EndRead, passing EndRead the size BeginRead granted or another.
NextRingTwoPhase ==
    \/ \E capacity \in RequestedCapacities, mapped \in BOOLEAN :
         Construct(capacity, mapped)
    \/ \E size \in LegalSizes : BeginWrite(size)
    \/ CopyIn
    \/ EndWrite
    \/ \E size \in LegalSizes : BeginRead(size)
    \/ CopyOut
    \/ EndRead
    \/ \E passed \in PassedSizes : EndReadWith(passed)

SpecRingTwoPhase == Init /\ [][NextRingTwoPhase]_vars

(***************************************************************************)
(* MessageQueue.  What a thread does between mQueueLock.lock() and         *)
(* unlock() is one step.  wait() is the wait on mEmptyCondition with the   *)
(* unique_lock made in the line before it; it returns after a notify_one   *)
(* that finds the thread waiting, or spuriously.                           *)
(***************************************************************************)
MaxEnqueues == 3
MaxDequeues == 3

\* The item a dequeue hands out that no thread enqueued.
Garbage == 0

\* if(!mQueue.empty()): the branch that unlocks and waits.
MustWait(q) == q # <<>>

\* Enqueue(T item) and Enqueue(std::list<T>&) up to the unlock.
\* The items are numbered in the order of their push_back; count is 1 for
\* Enqueue(T item) and the length of the list for the other.
EnqueueLocked(t, count) ==
    /\ msgq.state = "ok"
    /\ msgq.pc[t] = "idle"
    /\ msgq.enqueues < MaxEnqueues
    /\ LET items == [i \in 1..count |-> Len(msgq.put) + i] IN
       msgq' = [msgq EXCEPT
                  !.mQueue = @ \o items,
                  !.put = @ \o items,
                  !.enqueues = @ + 1,
                  !.pc[t] = IF msgq.mQueue = <<>> THEN "notify" ELSE "idle"]
    /\ UNCHANGED notQueue

\* The rest of Enqueue if(wasEmpty): notify_one wakes the waiting thread,
\* if there is one.
EnqueueNotify(t) ==
    /\ msgq.state = "ok"
    /\ msgq.pc[t] = "notify"
    /\ msgq' = [msgq EXCEPT
                  !.pc[t] = "idle",
                  !.pc[Consumer] = IF @ = "waiting" THEN "woken" ELSE @]
    /\ UNCHANGED notQueue

\* mQueue.pop_front() and the return of the item.  On an empty list the
\* call is undefined: the process faults, or the call returns what was
\* never enqueued and leaves the list unusable.
PopFront(outcome) ==
    IF msgq.mQueue # <<>>
    THEN [msgq EXCEPT !.got = Append(@, Head(msgq.mQueue)),
                      !.mQueue = Tail(@),
                      !.pc[Consumer] = "idle"]
    ELSE IF outcome = "fault"
    THEN [msgq EXCEPT !.state = "faulted"]
    ELSE [msgq EXCEPT !.state = "corrupted",
                      !.got = Append(@, Garbage),
                      !.pc[Consumer] = "idle"]

\* mQueue.swap(tempQueue) and the splice into destinationQueue.
SwapAll ==
    [msgq EXCEPT !.got = @ \o msgq.mQueue, !.mQueue = <<>>,
                 !.pc[Consumer] = "idle"]

Taken(call, outcome) ==
    IF call = "Dequeue" THEN PopFront(outcome) ELSE SwapAll

\* Dequeue and DequeueAll from the first lock: to the unlock before the
\* wait, or through to the return.
DequeueLocked(call, outcome) ==
    /\ msgq.state = "ok"
    /\ msgq.pc[Consumer] = "idle"
    /\ msgq.dequeues < MaxDequeues
    /\ LET entered == [msgq EXCEPT !.dequeues = @ + 1, !.call = call] IN
       IF MustWait(msgq.mQueue)
       THEN msgq' = [entered EXCEPT !.pc[Consumer] = "unlocked"]
       ELSE msgq' = [Taken(call, outcome) EXCEPT !.dequeues = @ + 1,
                                                  !.call = call]
    /\ UNCHANGED notQueue

\* mEmptyCondition.wait(): the thread starts to wait.
Wait ==
    /\ msgq.state = "ok"
    /\ msgq.pc[Consumer] = "unlocked"
    /\ msgq' = [msgq EXCEPT !.pc[Consumer] = "waiting"]
    /\ UNCHANGED notQueue

\* A wait that returns without a notify.
SpuriousWakeup ==
    /\ msgq.state = "ok"
    /\ msgq.pc[Consumer] = "waiting"
    /\ msgq' = [msgq EXCEPT !.pc[Consumer] = "woken"]
    /\ UNCHANGED notQueue

\* The second lock of Dequeue and DequeueAll, through to the return.
DequeueWoken(outcome) ==
    /\ msgq.state = "ok"
    /\ msgq.pc[Consumer] = "woken"
    /\ msgq' = Taken(msgq.call, outcome)
    /\ UNCHANGED notQueue

NextQueue ==
    \/ \E t \in Enqueuers, count \in {1, 2} : EnqueueLocked(t, count)
    \/ \E t \in Enqueuers : EnqueueNotify(t)
    \/ \E call \in {"Dequeue", "DequeueAll"}, outcome \in {"fault", "garbage"} :
         DequeueLocked(call, outcome)
    \/ Wait
    \/ SpuriousWakeup
    \/ \E outcome \in {"fault", "garbage"} : DequeueWoken(outcome)

SpecQueue == Init /\ [][NextQueue]_vars

\* A thread inside a call goes on: it is scheduled again, gets the mutex
\* it asks for, and returns from wait() once it was notified.  Nothing
\* makes a thread start a call, and nothing makes a wait return without
\* a notify.
InCall ==
    \/ \E t \in Enqueuers : EnqueueNotify(t)
    \/ Wait
    \/ \E outcome \in {"fault", "garbage"} : DequeueWoken(outcome)

SpecQueueFair == SpecQueue /\ WF_vars(InCall)

(***************************************************************************)
(* Packet: the calls of one thread on Packet a, with the ReadOnlyPacket b  *)
(* it is moved into and the Packet other it is split into.                 *)
(***************************************************************************)
MaxPacketCalls == 4

\* The positions, lengths and data the calls are made with.  A length is a
\* uint32_t; Huge is 2^32 - 1.
Huge == <<65535, 65535>>
SeekTo == {0, 1, 2, MAX_PACKET_SIZE - 1, MAX_PACKET_SIZE + 1}
Lengths == {U32(1), U32(3), Huge}
DirectSizes == {0, 3, MAX_PACKET_SIZE, MAX_PACKET_SIZE + 1}
CompressSizes == {0, 1, 2}
SplitSizes == {U32(0), U32(1), U32(3), Huge}
WriteInputs ==
    {[sz |-> U32(3), bytes |-> <<97, 98, 99>>],
     [sz |-> U32(1), bytes |-> <<122>>],
     [sz |-> Huge, bytes |-> <<>>]}

\* position + sz lies beyond `limit` bytes, in the integers.
Beyond(p, sz, limit) ==
    p.mPosition > limit \/ LtU32(U32(limit - p.mPosition), sz)

\* Variant: the size always set to position + sz.
GrowPacket_Truncating(p, sz) ==
    [p EXCEPT !.mSize = IntOfU32(AddU32(U32(p.mPosition), sz))]

\* Packet::GrowPacket: newSize is computed in uint32_t; the size is kept
\* when newSize is below it and set when newSize is at most MAX_PACKET_SIZE.
GrowPacketThrows(p, sz) ==
    LET newSize == AddU32(U32(p.mPosition), sz)
    IN  \/ sz = U32(0)
        \/ /\ ~LtU32(newSize, U32(p.mSize))
           /\ LtU32(U32(MAX_PACKET_SIZE), newSize)
GrowPacket(p, sz) ==
    LET newSize == AddU32(U32(p.mPosition), sz)
    IN  IF LtU32(newSize, U32(p.mSize)) THEN p
        ELSE [p EXCEPT !.mSize = IntOfU32(newSize)]

\* memcpy(mData + mPosition, pData, sz) within the buffer.
CopyAt(p, bytes) ==
    LET into == {p.mPosition + i : i \in 1..Len(bytes)}
    IN  [p EXCEPT !.mData =
            [k \in (DOMAIN p.mData) \cup into |->
                IF k \in into THEN bytes[k - p.mPosition] ELSE p.mData[k]]]

\* The call made: the packet it leaves, and whether it threw a
\* PacketException.
Called(op, sz, threw, a) ==
    [pkt EXCEPT !.a = a, !.calls = @ + 1,
                !.last = [op |-> op, sz |-> sz, threw |-> threw]]

\* A call with undefined behaviour: the process faults in it, or it runs
\* on and leaves a.
Undefined(op, sz, a, outcome) ==
    IF outcome = "fault"
    THEN [Called(op, sz, FALSE, pkt.a) EXCEPT !.state = "faulted"]
    ELSE [Called(op, sz, FALSE, a) EXCEPT !.state = "corrupted"]

Callable == pkt.state = "ok" /\ pkt.calls < MaxPacketCalls

PacketSeek(pos) ==
    /\ Callable
    /\ pkt' = IF SeekThrows(pkt.a, pos)
              THEN Called("Seek", U32(pos), TRUE, pkt.a)
              ELSE Called("Seek", U32(pos), FALSE, Seek(pkt.a, pos))
    /\ UNCHANGED notPacket

PacketSkip(sz) ==
    /\ Callable
    /\ pkt' = IF SkipThrows(pkt.a, sz)
              THEN Called("Skip", sz, TRUE, pkt.a)
              ELSE Called("Skip", sz, FALSE, Skip(pkt.a, sz))
    /\ UNCHANGED notPacket

\* Packet::WriteArray(pData, sz) with sz > 0: GrowPacket, memcpy, Skip.  The
\* memcpy is undefined when mData is nullptr and when it runs past the
\* MAX_PACKET_SIZE bytes of the buffer.
PacketWriteArray(w, outcome) ==
    /\ Callable
    /\ LET p == pkt.a
           grown == GrowPacket(p, w.sz)
       IN  pkt' =
             IF GrowPacketThrows(p, w.sz)
             THEN Called("WriteArray", w.sz, TRUE, p)
             ELSE IF "a" \in pkt.null \/ Beyond(p, w.sz, MAX_PACKET_SIZE)
             THEN Undefined("WriteArray", w.sz,
                            IF SkipThrows(grown, w.sz) THEN grown
                            ELSE Skip(grown, w.sz), outcome)
             ELSE Called("WriteArray", w.sz, FALSE,
                         Skip(CopyAt(grown, w.bytes), w.sz))
    /\ UNCHANGED notPacket

\* Packet::ReadArray(sz) with sz > 0: the check in uint32_t, the copy out of
\* mData + mPosition, Skip.  The copy is undefined when it runs past the
\* buffer.
PacketReadArray(sz, outcome) ==
    /\ Callable
    /\ LET p == pkt.a
       IN  pkt' =
             IF LtU32(U32(p.mSize), AddU32(U32(p.mPosition), sz))
             THEN Called("ReadArray", sz, TRUE, p)
             ELSE IF Beyond(p, sz, MAX_PACKET_SIZE)
             THEN Undefined("ReadArray", sz,
                            IF SkipThrows(p, sz) THEN p ELSE Skip(p, sz),
                            outcome)
             ELSE Called("ReadArray", sz, FALSE, Skip(p, sz))
    /\ UNCHANGED notPacket

\* Packet::Direct(sz).
PacketDirect(sz) ==
    /\ Callable
    /\ pkt' = IF sz = 0 THEN Called("Direct", U32(sz), FALSE, pkt.a)
              ELSE IF DirectThrows(pkt.a, sz)
              THEN Called("Direct", U32(sz), TRUE, pkt.a)
              ELSE Called("Direct", U32(sz), FALSE,
                          [pkt.a EXCEPT !.mSize = sz])
    /\ UNCHANGED notPacket

PacketClear ==
    /\ Callable
    /\ pkt' = Called("Clear", U32(0), FALSE, Clear(pkt.a))
    /\ UNCHANGED notPacket

\* The bytes of the zlib stream deflate makes of sz bytes, for the short
\* inputs of CompressSizes: two bytes of header, the literals and the end
\* of block in one fixed-Huffman block, four bytes of checksum.
DeflatedSize(sz) == sz + 8

\* Compress::Compress(pIn, pOut, inSize, outSize): the bytes written, or -3
\* when deflate does not finish within outSize bytes.
CompressCompress(inSize, outSize) ==
    IF 1 > inSize \/ 1 > outSize THEN -1
    ELSE IF DeflatedSize(inSize) > outSize THEN -3
    ELSE DeflatedSize(inSize)

\* Packet::Compress(sz): mSize = mPosition, then mSize += (uint32_t)written;
\* the bytes from the position on are those of the stream, which the model
\* does not compute.
PacketCompress(sz) ==
    /\ Callable
    /\ LET p == pkt.a
           written == CompressCompress(sz, MAX_PACKET_SIZE - p.mPosition)
           mSize == IntOfU32(AddU32(U32(p.mPosition),
                       IF written < 0 THEN SubU32(U32(0), U32(-written))
                       ELSE U32(written)))
       IN  pkt' =
             IF sz = 0 THEN Called("Compress", U32(sz), FALSE, p)
             ELSE IF p.mPosition + sz > p.mSize
             THEN Called("Compress", U32(sz), TRUE, p)
             ELSE Called("Compress", U32(sz), FALSE,
                         [p EXCEPT !.mSize = mSize,
                                   !.mData = [k \in {j \in DOMAIN p.mData :
                                                j <= p.mPosition}
                                              |-> p.mData[k]]])
    /\ UNCHANGED notPacket

\* Packet::Split(other, sz): other.Clear(), then other.ReadArray(mData +
\* mPosition, sz), the read of sz bytes out of the packet just cleared,
\* which throws.
PacketSplit(sz) ==
    /\ Callable
    /\ LET p == pkt.a
       IN  pkt' =
             IF sz = U32(0)
             THEN [Called("Split", sz, FALSE, p) EXCEPT
                      !.other = Clear(pkt.other)]
             ELSE IF LtU32(U32(p.mSize), AddU32(U32(p.mPosition), sz))
             THEN Called("Split", sz, TRUE, p)
             ELSE [Called("Split", sz,
                          ReadArrayThrows(Clear(pkt.other), sz), p) EXCEPT
                      !.other = Clear(pkt.other)]
    /\ UNCHANGED notPacket

\* ReadOnlyPacket b(std::move(a)): b takes the position, the size and the
\* buffer; a is left with position 0, size 0 and mData nullptr, and
\* Clear() runs on it, which in a build with COMP_HACK_DEBUG fills the
\* buffer behind mData.
PacketMove(debug) ==
    /\ Callable
    /\ LET moved == [Called("Move", U32(0), FALSE, EmptyPacket) EXCEPT
                        !.b = pkt.a, !.null = @ \cup {"a"}]
       IN  pkt' = IF debug THEN [moved EXCEPT !.state = "faulted"]
                  ELSE moved
    /\ UNCHANGED notPacket

NextPacket ==
    \/ \E pos \in SeekTo : PacketSeek(pos)
    \/ \E sz \in Lengths : PacketSkip(sz)
    \/ \E w \in WriteInputs, outcome \in {"fault", "runs on"} :
          PacketWriteArray(w, outcome)
    \/ \E sz \in Lengths, outcome \in {"fault", "runs on"} :
          PacketReadArray(sz, outcome)
    \/ \E sz \in DirectSizes : PacketDirect(sz)
    \/ PacketClear
    \/ \E sz \in CompressSizes : PacketCompress(sz)
    \/ \E sz \in SplitSizes : PacketSplit(sz)
    \/ \E debug \in BOOLEAN : PacketMove(debug)

SpecPacket == Init /\ [][NextPacket]_vars

(***************************************************************************)
(* TcpServer: the accept handler, the Diffie-Hellman parameters it shares  *)
(* and the copies the connections own.                                     *)
(***************************************************************************)
\* DH_new(): the address of a new context.
DH_new(heap) == CHOOSE d \in DhObjects :
                    /\ heap[d] = Unused
                    /\ \A e \in DhObjects : heap[e] = Unused => d <= e

\* Variant: the connection is given the server's context itself.
CopyAddress_Alias(l, heap) == l.mDiffieHellman

\* TcpServer::CopyDiffieHellman: pCopy = DH_new(), the address of the copy.
CopyAddress(l, heap) == DH_new(heap)

\* TcpServer::AcceptHandler: on success the parameters are generated when
\* there are none, TcpServer::CreateConnection gives the new connection
\* CopyDiffieHellman(mDiffieHellman), and the next accept is started.
TcpServerAcceptHandler(errorCode, generated) ==
    /\ lsn.pending
    /\ lsn.accepts < MaxAccepts
    /\ LET made == IF lsn.mDiffieHellman = 0
                   THEN GenerateDiffieHellman(generated)
                   ELSE NullDH
           shared == IF lsn.mDiffieHellman # 0 THEN lsn.mDiffieHellman
                     ELSE IF made # NullDH THEN DH_new(lsn.heap)
                     ELSE 0
           heap == IF lsn.mDiffieHellman = 0 /\ shared # 0
                   THEN [lsn.heap EXCEPT ![shared] = made]
                   ELSE lsn.heap
           l == [lsn EXCEPT !.mDiffieHellman = shared, !.heap = heap,
                            !.accepts = @ + 1]
           copy == CopyAddress(l, heap)
       IN  lsn' =
             IF errorCode THEN [lsn EXCEPT !.pending = FALSE,
                                           !.accepts = @ + 1]
             ELSE IF shared = 0 THEN [l EXCEPT !.pending = FALSE]
             ELSE [l EXCEPT
                     !.heap[copy] = CopyDiffieHellman(heap[shared]),
                     !.mConnections = Append(@,
                         [mDiffieHellman |-> copy,
                          mStatus |-> "STATUS_CONNECTED"])]
    /\ UNCHANGED notListener

\* The connections of the listener that are not destroyed.
Accepted == {i \in 1..Len(lsn.mConnections) :
                lsn.mConnections[i].mStatus # "destroyed"}

\* The handshake of an accepted connection as far as it writes to its
\* context: DH_generate_key in GenerateDiffieHellmanPublic.
ConnectionGenerateKey(i, x) ==
    /\ i \in Accepted
    /\ lsn.mConnections[i].mStatus = "STATUS_CONNECTED"
    /\ LET dh == lsn.mConnections[i].mDiffieHellman
       IN  /\ lsn.heap[dh] \notin {Unused, Freed}
           /\ lsn.heap[dh].priv = 0
           /\ lsn' = [lsn EXCEPT
                        !.heap[dh] = DH_generate_key(@, x),
                        !.mConnections[i].mStatus = "STATUS_WAITING_ENCRYPTION"]
    /\ UNCHANGED notListener

\* TcpConnection::SocketError on an accepted connection: the context stays.
ConnectionSocketError(i) ==
    /\ i \in Accepted
    /\ lsn.mConnections[i].mStatus # "STATUS_NOT_CONNECTED"
    /\ lsn' = [lsn EXCEPT !.mConnections[i].mStatus = "STATUS_NOT_CONNECTED"]
    /\ UNCHANGED notListener

\* TcpConnection::~TcpConnection: DH_free(mDiffieHellman).
ConnectionDestroy(i) ==
    /\ i \in Accepted
    /\ LET dh == lsn.mConnections[i].mDiffieHellman
       IN  lsn' = [lsn EXCEPT !.heap[dh] = Freed,
                              !.mConnections[i].mStatus = "destroyed"]
    /\ UNCHANGED notListener

NextListener ==
    \/ \E errorCode \in BOOLEAN, generated \in BOOLEAN :
         TcpServerAcceptHandler(errorCode, generated)
    \/ \E i \in 1..MaxAccepts, x \in ConnPrivs : ConnectionGenerateKey(i, x)
    \/ \E i \in 1..MaxAccepts : ConnectionSocketError(i)
    \/ \E i \in 1..MaxAccepts : ConnectionDestroy(i)

SpecListener == Init /\ [][NextListener]_vars

(***************************************************************************)
(* Decrypt: encrypted files, the decrypt tool and session keys.  size_t is *)
(* 64 bits wide and the host is little-endian.                             *)
(***************************************************************************)
\* Config::ENCRYPTED_FILE_MAGIC "CHED", ENCRYPTED_FILE_KEY and
\* ENCRYPTED_FILE_IV as bytes.
ENCRYPTED_FILE_MAGIC == <<67, 72, 69, 68>>
ENCRYPTED_FILE_KEY ==
    <<125, 93, 35, 83, 117, 63, 89, 125, 113, 33, 94, 102, 42, 83, 53, 79>>
ENCRYPTED_FILE_IV == <<80, 91, 63, 106, 100, 54, 99, 52>>

\* sizeof(EncryptedFileHeader_t): char magic[4], uint32_t originalSize.
HeaderSize == 8

\* A uint32_t in memory, and the bytes of one.
U32OfBytesLittle(b) == <<b[4] * 256 + b[3], b[2] * 256 + b[1]>>
BytesOfU32Little(a) ==
    <<a[2] % 256, a[2] \div 256, a[1] % 256, a[1] \div 256>>

\* a ^ b on the low n bits, and on a block of 8 bytes.
RECURSIVE XorBits(_, _, _)
XorBits(a, b, n) ==
    IF n = 0 THEN 0
    ELSE ((a + b) % 2) + 2 * XorBits(a \div 2, b \div 2, n - 1)

XorBlock(a, b) == [i \in 1..8 |-> XorBits(a[i], b[i], 8)]

\* std::vector::resize(n): truncated, or filled up with zero bytes.
Resize(data, n) ==
    IF n <= Len(data) THEN SubSeq(data, 1, n)
    ELSE data \o Repeat(0, n - Len(data))

\* The loop of Decrypt::EncryptCbc over the full blocks.
RECURSIVE EncryptCbcBlocks(_, _, _)
EncryptCbcBlocks(key, previousBlock, data) ==
    IF Len(data) < BLOWFISH_BLOCK_SIZE THEN data
    ELSE LET encryptedBlock ==
                 BF_encrypt(key, XorBlock(SubSeq(data, 1, 8), previousBlock))
         IN  encryptedBlock
             \o EncryptCbcBlocks(key, encryptedBlock, SubSeq(data, 9, Len(data)))

\* Decrypt::EncryptCbc(data): zero-padded to the block size, then chained.
EncryptCbc(data) ==
    LET size == ((Len(data) + BLOWFISH_BLOCK_SIZE - 1) \div BLOWFISH_BLOCK_SIZE)
                    * BLOWFISH_BLOCK_SIZE
    IN  EncryptCbcBlocks(ENCRYPTED_FILE_KEY, ENCRYPTED_FILE_IV,
                         Resize(data, size))

\* The loop of Decrypt::DecryptCbc over the full blocks.
RECURSIVE DecryptCbcBlocks(_, _, _)
DecryptCbcBlocks(key, previousBlock, data) ==
    IF Len(data) < BLOWFISH_BLOCK_SIZE THEN data
    ELSE LET encryptedBlock == SubSeq(data, 1, 8)
         IN  XorBlock(BF_decrypt(key, encryptedBlock), previousBlock)
             \o DecryptCbcBlocks(key, encryptedBlock, SubSeq(data, 9, Len(data)))

\* Decrypt::DecryptCbc(data, realSize): decrypts only a buffer of whole
\* blocks that holds realSize bytes; resizes to realSize unless it is 0.
DecryptCbc(data, realSize) ==
    LET size == Len(data)
        plain == IF /\ (0 = realSize \/ realSize <= size)
                    /\ 0 = size % BLOWFISH_BLOCK_SIZE
                 THEN DecryptCbcBlocks(ENCRYPTED_FILE_KEY, ENCRYPTED_FILE_IV,
                                       data)
                 ELSE data
    IN  IF 0 # realSize THEN Resize(plain, realSize) ELSE plain

\* Decrypt::LoadFile(path): the bytes of the file, nothing when it cannot
\* be opened or is empty.
LoadFile(file) == IF file.good THEN file.bytes ELSE <<>>

\* The header check of DecryptFile: originalSize is a uint32_t, the sum is
\* formed in size_t.
HeaderOk(data) ==
    LET originalSize == U32OfBytesLittle(SubSeq(data, 5, 8)) IN
    /\ originalSize[1] = 0
    /\ Len(data) >= HeaderSize + originalSize[2]
    /\ SubSeq(data, 1, 4) = ENCRYPTED_FILE_MAGIC

\* Decrypt::DecryptFile.
DecryptFile(file) ==
    LET data == LoadFile(file) IN
    IF HeaderSize < Len(data)
    THEN IF HeaderOk(data)
         THEN DecryptCbc(SubSeq(data, HeaderSize + 1, Len(data)),
                         U32OfBytesLittle(SubSeq(data, 5, 8))[2])
         ELSE <<>>
    ELSE data

\* Decrypt::EncryptFile(path, data): the file it writes.
EncryptFile(data) ==
    [good |-> TRUE,
     bytes |-> ENCRYPTED_FILE_MAGIC \o BytesOfU32Little(U32(Len(data)))
               \o EncryptCbc(data)]

\* The plaintexts whose encrypted files are the valid inputs.
Plaintexts ==
    { <<84, 104, 105, 115, 10>>, <<1, 2, 3, 4, 5, 6, 7, 8>>,
      <<9, 8, 7, 6, 5, 4, 3, 2, 1>>, Repeat(0, 16) }

\* A file with the bytes from..to replaced, and cut to n bytes.
Patched(file, from, bytes) ==
    [file EXCEPT !.bytes = SubSeq(@, 1, from - 1) \o bytes
                           \o SubSeq(@, from + Len(bytes), Len(@))]
CutTo(file, n) == [file EXCEPT !.bytes = SubSeq(@, 1, n)]

\* The files the tool is run on: valid ones; the same with another magic,
\* with an original size one above the data, with the largest original
\* size, and with the last byte missing; every file of at most HeaderSize
\* bytes that begins like a valid one; a file that cannot be opened.
InputFiles ==
    LET valid == {EncryptFile(p) : p \in Plaintexts} IN
    valid
    \cup {Patched(f, 4, <<88>>) : f \in valid}
    \cup {Patched(f, 5, BytesOfU32Little(U32(Len(f.bytes) - HeaderSize + 1)))
            : f \in valid}
    \cup {Patched(f, 5, BytesOfU32Little(<<65535, 65535>>)) : f \in valid}
    \cup {CutTo(f, Len(f.bytes) - 1) : f \in valid}
    \cup {CutTo(f, n) : f \in valid, n \in 1..HeaderSize}
    \cup {NoFile}

\* main() of the decrypt tool, run as decrypt IN OUT; outGood says the
\* output file could be written.
DecryptMain(file, outGood) ==
    /\ dec.pc = "start"
    /\ LET data == DecryptFile(file) IN
       dec' = [dec EXCEPT
                 !.pc = "exited", !.file = file, !.data = data,
                 !.out = IF data # <<>> /\ outGood THEN data ELSE <<>>,
                 !.status = IF data = <<>> THEN 1
                            ELSE IF outGood THEN 0 ELSE 1]
    /\ UNCHANGED notDecrypt

\* What /dev/urandom yields for a read of sizeof(uint32_t) bytes.
RandomWords ==
    { <<0, 0, 0, 0>>, <<1, 0, 0, 0>>, <<0, 0, 0, 128>>, <<1, 0, 0, 128>>,
      <<255, 255, 255, 127>>, <<255, 255, 255, 255>>, <<120, 86, 52, 18>>,
      <<13, 240, 173, 139>> }

\* sessionKey &= 0x7FFFFFFF.
ClearSign(key) == <<key[1] % 32768, key[2]>>

\* Decrypt::GenerateSessionKey on Linux, with what LoadFile returned for
\* /dev/urandom.
GenerateSessionKey(data) ==
    IF 4 # Len(data) THEN U32(0)
    ELSE LET sessionKey == ClearSign(U32OfBytesLittle(data))
         IN  IF U32(0) = sessionKey THEN <<35757, 61453>> ELSE sessionKey

\* A call of GenerateSessionKey.
SessionKey(urandom) ==
    /\ dec' = [dec EXCEPT !.urandom = urandom,
                          !.sessionKey = GenerateSessionKey(LoadFile(urandom))]
    /\ UNCHANGED notDecrypt

NextDecrypt ==
    \/ \E file \in InputFiles, outGood \in BOOLEAN : DecryptMain(file, outGood)
    \/ \E urandom \in {[good |-> TRUE, bytes |-> w] : w \in RandomWords}
                       \cup {NoFile} : SessionKey(urandom)

SpecDecrypt == Init /\ [][NextDecrypt]_vars

(***************************************************************************)
(* Properties.                                                             *)
(***************************************************************************)
HandshakeParsers ==
    {"ParseClientEncryptionStart", "ParseServerEncryptionStart",
     "ParseServerEncryptionFinish"}

\* A step in which an error takes a connected connection down.
Fails(c) ==
    /\ conn[c].mStatus \in {"STATUS_CONNECTED", "STATUS_WAITING_ENCRYPTION",
                            "STATUS_ENCRYPTED"}
    /\ conn'[c].mStatus = "STATUS_NOT_CONNECTED"

IsPrefix(a, b) == Len(a) <= Len(b) /\ a = SubSeq(b, 1, Len(a))

\* The messages of one connection, in queue order.
RECURSIVE MessagesOf(_, _)
MessagesOf(c, q) ==
    IF q = <<>> THEN <<>>
    ELSE IF Head(q).mConnection = c
         THEN <<Head(q)>> \o MessagesOf(c, Tail(q))
         ELSE MessagesOf(c, Tail(q))

\* What is wrong with the commands of a decrypted frame body b from offset
\* pos on, pad being padded_size - real_size: "short" for a size_le below
\* 4, "past" for a body running past the end of the frame, "leftover" for
\* bytes after the last command that are not exactly the padding.
RECURSIVE DefectAt(_, _, _)
DefectAt(b, pos, pad) ==
    LET rest == Len(b) - pos
        sizeLe == b[pos + 3] + 256 * b[pos + 4]
    IN  IF rest = pad THEN "none"
        ELSE IF rest < pad \/ rest < 6 THEN "leftover"
        ELSE IF sizeLe < 4 THEN "short"
        ELSE IF pos + 2 + sizeLe > Len(b) THEN "past"
        ELSE DefectAt(b, pos + 2 + sizeLe, pad)

Defect(frame) ==
    DefectAt(SubSeq(frame, 9, Len(frame)), 0,
             IntOfU32(U32OfBytesBig(SubSeq(frame, 1, 4)))
             - IntOfU32(U32OfBytesBig(SubSeq(frame, 5, 8))))

C2_ErrorFatalToThatConnectionOnly ==
    [][\A c \in Conns :
          /\ ~hist'[c].escaped
          /\ hist'[c].caught # hist[c].caught
               => /\ conn'[c].mStatus = "STATUS_NOT_CONNECTED"
                  /\ ~conn'[c].mSocket.open
                  /\ conn'[c].mSocket.recv = U32(0)
                  /\ \A d \in Conns \ {c} :
                        conn'[d] = conn[d] /\ hist'[d] = hist[d]]_vars

\* C3 as stated: whenever an error takes a connection down, the connection
\* holds no Diffie-Hellman context afterwards.
C3_ErrorFreesDH ==
    [][\A c \in Conns :
          Fails(c) => conn'[c].mDiffieHellman = NullDH]_vars

C5_ErrorDiscardsQueue ==
    [][\A c \in Conns :
          Fails(c) => conn'[c].mOutgoingPackets = <<>>]_vars

\* C6: a connection has at most one asynchronous write in flight.
C6_OneWriteInFlight ==
    \A c \in Conns : conn[c].mSocket.send <= 1

\* A write is in flight while SendPacket calls have queued two more frames
\* behind the one being written.
C6_Witness ==
    \E c \in Conns :
        /\ conn[c].mSocket.send = 1
        /\ Len(conn[c].mOutgoingPackets) >= 3
        /\ used.sends >= 2

\* C7: the frames of a connection are handed to the socket in the order
\* in which SendPacket queued them, none twice and none skipped.
C7_WrittenInEnqueueOrder ==
    \A c \in Conns : IsPrefix(hist[c].issued, hist[c].enq)

\* Three frames were handed to the socket, two of them the application's.
C7_Witness ==
    \E c \in Conns :
        /\ Len(hist[c].issued) >= 3
        /\ hist[c].issued[2] # hist[c].issued[3]

C9_MessageCarriesBody ==
    \A i \in 1..Len(mQueue) :
        /\ mQueue[i].mPacket.mData = mQueue[i].wire.body
        /\ mQueue[i].mPacket.mSize = Len(mQueue[i].wire.body)
        /\ mQueue[i].mPacket.mPosition = 0
        /\ mQueue[i].mConnection \in Conns

\* C10: a frame handed to the command parser that has a command with
\* size_le below 4, a command whose body runs past the end of the frame,
\* or bytes after the last command that are not exactly the padding,
\* leaves the connection NotConnected.
C10_DefectiveFrameIsFatal ==
    [][\A c \in Conns :
          (hist'[c].parses # hist[c].parses
           /\ Defect(hist'[c].lastFrame) # "none")
              => conn'[c].mStatus = "STATUS_NOT_CONNECTED"]_vars

\* A frame with bytes left that are not the padding was parsed on a
\* connection that has its message queue and its own pointer.
C10_Witness ==
    \E c \in Conns :
        /\ hist[c].parses > 0
        /\ Defect(hist[c].lastFrame) = "leftover"
        /\ conn[c].mMessageQueue = "queue"
        /\ conn[c].mSelf = c
        /\ conn[c].mStatus = "STATUS_NOT_CONNECTED"

FramePadded(frame) == IntOfU32(U32OfBytesBig(SubSeq(frame, 1, 4)))

\* C11 as stated: a frame handed to the command parser whose padded_size
\* is not a multiple of the block size leaves the connection NotConnected
\* and adds no message to the queue.
C11_UnalignedFrameIsFatal ==
    [][\A c \in Conns :
          (hist'[c].parses # hist[c].parses
           /\ FramePadded(hist'[c].lastFrame) % BLOWFISH_BLOCK_SIZE # 0)
              => /\ conn'[c].mStatus = "STATUS_NOT_CONNECTED"
                 /\ MessagesOf(c, mQueue') = MessagesOf(c, mQueue)]_vars

\* The per-frame envelope: padded_size, real_size, and padded_size bytes of
\* ciphertext, padded_size being real_size rounded up to whole blocks.
IsEnvelope(f) ==
    /\ Len(f) >= 2 * 4
    /\ LET padded == U32OfBytesBig(SubSeq(f, 1, 4))
           real == U32OfBytesBig(SubSeq(f, 5, 8))
       IN  /\ padded[1] = 0 /\ real[1] = 0
           /\ Len(f) = 2 * 4 + padded[2]
           /\ padded[2] % BLOWFISH_BLOCK_SIZE = 0
           /\ real[2] <= padded[2]
           /\ padded[2] - real[2] < BLOWFISH_BLOCK_SIZE

\* C12 as stated: every frame a connection hands to the socket while its
\* status is Encrypted is an envelope of ciphertext.
C12_EncryptedWritesAreEnvelopes ==
    [][\A c \in Conns :
          (conn[c].mStatus = "STATUS_ENCRYPTED"
           /\ Len(hist'[c].issued) > Len(hist[c].issued))
              => IsEnvelope(hist'[c].issued[Len(hist'[c].issued)])]_vars

\* C13: a connection's status becomes Encrypted only from
\* WaitingEncryption, and only with the session key just set from computed
\* shared data of DH_SHARED_DATA_SIZE (128) bytes.
C13_EncryptedOnlyAfterWaitingWithKey ==
    [][\A c \in Conns :
          (conn'[c].mStatus = "STATUS_ENCRYPTED"
           /\ conn[c].mStatus # "STATUS_ENCRYPTED")
              => /\ hist'[c].encryptedFrom = "STATUS_WAITING_ENCRYPTION"
                 /\ conn[c].mStatus \in {"STATUS_CONNECTED",
                                         "STATUS_WAITING_ENCRYPTION"}
                 /\ conn[c].mRole = "ROLE_SERVER"
                        => conn[c].mStatus = "STATUS_WAITING_ENCRYPTION"
                 /\ hist'[c].sharedData.size = DH_SHARED_DATA_SIZE
                 /\ Len(hist'[c].sharedData.known) >= BF_NET_KEY_BYTE_SIZE
                 /\ conn'[c].mEncryptionKey =
                        SubSeq(hist'[c].sharedData.known, 1,
                               BF_NET_KEY_BYTE_SIZE)]_vars

\* A connection of the given role became Encrypted from WaitingEncryption,
\* with a key of BF_NET_KEY_BYTE_SIZE bytes.
EncryptedAs(role) ==
    \E c \in Conns :
        /\ conn[c].mRole = role
        /\ conn[c].mStatus = "STATUS_ENCRYPTED"
        /\ hist[c].encryptedFrom = "STATUS_WAITING_ENCRYPTION"
        /\ Len(conn[c].mEncryptionKey) = BF_NET_KEY_BYTE_SIZE

C13_Witness == EncryptedAs("ROLE_SERVER")

ClientBecameEncrypted == EncryptedAs("ROLE_CLIENT")

\* What the parser of c sees in a step that takes bytes off the socket:
\* the bytes buffered before and the bytes the step consumed.
SeenBy(c) ==
    LET consumed == Len(conn[c].mSocket.rx) - Len(conn'[c].mSocket.rx) IN
    conn[c].mReceivedPacket.mData
        \o (IF consumed > 0 THEN SubSeq(conn[c].mSocket.rx, 1, consumed)
            ELSE <<>>)

ExpectedGreeting == WriteU32Big(1) \o WriteU32Big(8)

\* C14: a server-role connection awaiting the greeting queues its reply
\* and moves on to ParseServerEncryptionFinish only in a step in which the
\* first 8 bytes received are u32_be(1) || u32_be(8); a step that completes
\* any other 8 bytes queues nothing and leaves the status NotConnected.
C14_ReplyOnlyToExactGreeting ==
    [][\A c \in Conns :
          (conn[c].mRole = "ROLE_SERVER"
           /\ conn[c].mPacketParser = "ParseServerEncryptionStart")
              => /\ (\/ conn'[c].mPacketParser = "ParseServerEncryptionFinish"
                     \/ hist'[c].enq # hist[c].enq)
                        => /\ Len(SeenBy(c)) >= 8
                           /\ SubSeq(SeenBy(c), 1, 8) = ExpectedGreeting
                           /\ Len(hist'[c].enq) = Len(hist[c].enq) + 1
                 /\ (/\ Len(SeenBy(c)) >= 8
                     /\ conn'[c].mSocket.rx # conn[c].mSocket.rx
                     /\ SubSeq(SeenBy(c), 1, 8) # ExpectedGreeting)
                        => /\ hist'[c].enq = hist[c].enq
                           /\ conn'[c].mOutgoingPackets = <<>>
                           /\ conn'[c].mStatus = "STATUS_NOT_CONNECTED"]_vars

\* A server-role connection has replied to the greeting and waits for the
\* client's public value.
C14_Witness ==
    \E c \in Conns :
        /\ conn[c].mRole = "ROLE_SERVER"
        /\ conn[c].mPacketParser = "ParseServerEncryptionFinish"
        /\ conn[c].mStatus = "STATUS_WAITING_ENCRYPTION"
        /\ Len(hist[c].enq) = 1

\* A server-role connection was sent a greeting, replied nothing and is
\* NotConnected.
GreetingRefused ==
    \E c \in Conns :
        /\ conn[c].mRole = "ROLE_SERVER"
        /\ remote[c].sent = 1
        /\ hist[c].enq = <<>>
        /\ hist[c].caught = 0
        /\ conn[c].mStatus = "STATUS_NOT_CONNECTED"
        /\ used.faults = 0

\* C15 as stated: when both sides completed the exchange they hold the
\* same session key, and each computed the identical 128 bytes of shared
\* data.
C15_SameSecretAndKey ==
    kx.stage = "done"
        => /\ kx.clientKey = kx.serverKey
           /\ Len(kx.clientData) = DH_SHARED_DATA_SIZE
           /\ kx.clientData = kx.serverData

\* When both sides completed the exchange their Blowfish keys are the same
\* BF_NET_KEY_BYTE_SIZE bytes.
SameSessionKey ==
    kx.stage = "done"
        => /\ kx.clientKey = kx.serverKey
           /\ Len(kx.clientKey) = BF_NET_KEY_BYTE_SIZE

\* Both sides completed the exchange with a secret of all 128 bytes.
FullSecretExchanged ==
    /\ kx.stage = "done"
    /\ kx.client.priv * kx.server.priv >= 8 * (DH_SHARED_DATA_SIZE - 1)

\* C16: in every state of a constructed ring buffer, whatever sizes the
\* threads pass, Available() + Free() = Capacity() - 1.
C16_AvailablePlusFree ==
    ring.state = "constructed"
        => Available(ring) + Free(ring) = Capacity(ring) - 1

\* Both threads are in a call on a buffer whose write index has wrapped
\* around behind the read index.
C16_Witness ==
    /\ ring.state = "constructed"
    /\ prod.pc = "Write"
    /\ cons.pc = "Read"
    /\ ring.mWriteIndex < ring.mReadIndex
    /\ Available(ring) > 0

\* C17: with a producer and a consumer that pass counts of bytes, in every
\* state the bytes the Write calls reported written less the bytes the Read
\* calls reported read are Available().
C17_WrittenLessReadIsAvailable ==
    ring.state = "constructed"
        => tally.written - tally.read = Available(ring)

\* A Write was cut to the free room, bytes were read, and a Read and a
\* Write are in progress on a buffer that is not empty.
C17_Witness ==
    /\ ring.state = "constructed"
    /\ tally.written >= ring.mCapacity - 1
    /\ tally.read > 0
    /\ tally.written - tally.read > 0
    /\ prod.pc = "Write" /\ ~prod.ended
    /\ cons.pc = "Read" /\ ~cons.ended

\* C18 as stated: the bytes the consumer has copied out are, in order, the
\* first bytes of the producer's stream 1, 2, 3, ...
C18_ConsumerSeesProducersBytes ==
    tally.consumed = [i \in 1..Len(tally.consumed) |-> i]

\* The smallest power of two that is not below n.
RECURSIVE PowerOfTwoFrom(_, _)
PowerOfTwoFrom(p, n) == IF p >= n THEN p ELSE PowerOfTwoFrom(2 * p, n)

NextPowerOfTwo(n) == PowerOfTwoFrom(1, n)

\* C19 as stated: a construction with a requested capacity above one ends
\* with the capacity the larger of the page size and the next power of
\* two, not below the requested one, or with the failure to map memory.
C19_RoundsUpOrMapFails ==
    (ring.state # "none" /\ ring.requested > 1)
        => \/ ring.state = "Failed to memory map ring buffer."
           \/ /\ ring.state = "constructed"
              /\ ring.mCapacity >= ring.requested
              /\ ring.mCapacity =
                     IF GetPageSize > NextPowerOfTwo(ring.requested)
                     THEN GetPageSize
                     ELSE NextPowerOfTwo(ring.requested)

\* C20 as stated: the read index changes only in a step of the consumer
\* and the write index only in a step of the producer, and a change moves
\* the index forward by the size of the call, a positive count within the
\* bytes available or free, whatever size was passed.
C20_IndicesOnlyAdvance ==
    [][/\ ring'.mReadIndex # ring.mReadIndex
          => /\ ring.state = "constructed"
             /\ cons' # cons /\ prod' = prod
             /\ cons'.size > 0 /\ cons'.size <= Available(ring)
             /\ ring'.mReadIndex =
                    (ring.mReadIndex + cons'.size) % ring.mCapacity
       /\ ring'.mWriteIndex # ring.mWriteIndex
          => /\ ring.state = "constructed"
             /\ prod' # prod /\ cons' = cons
             /\ prod'.size > 0 /\ prod'.size <= Free(ring)
             /\ ring'.mWriteIndex =
                    (ring.mWriteIndex + prod'.size) % ring.mCapacity]_vars

\* C21 as stated: a step that changes the read index moves it forward by
\* at most the size the matching BeginRead granted, whatever the producer
\* did in between and whatever size EndRead was passed.
C21_EndReadWithinGrant ==
    [][ring'.mReadIndex # ring.mReadIndex
          => (ring'.mReadIndex - ring.mReadIndex) % ring.mCapacity
                 <= cons.size]_vars

\* The same for the consumer that passes EndRead the size BeginRead
\* granted, as Read does.
EndReadOfReadWithinGrant ==
    [][(ring'.mReadIndex # ring.mReadIndex /\ cons'.size = cons.size)
          => (ring'.mReadIndex - ring.mReadIndex) % ring.mCapacity
                 <= cons.size]_vars

\* C22 as stated: what Dequeue and DequeueAll have handed out is, item for
\* item and in order, the beginning of what was enqueued.
C22_HandedOutInEnqueueOrder ==
    IsPrefix(msgq.got, msgq.put)

\* C23 as stated: a Dequeue that finds the queue empty blocks, taking
\* nothing from it, and every item Dequeue returns was enqueued before.
C23_DequeueBlocksWhileEmpty ==
    [][(msgq'.call = "Dequeue" /\ msgq' # msgq)
          => /\ (msgq'.dequeues # msgq.dequeues /\ msgq.mQueue = <<>>)
                    => /\ msgq'.state = "ok"
                       /\ msgq'.pc[Consumer] = "unlocked"
                       /\ msgq'.got = msgq.got
             /\ \A i \in 1..Len(msgq'.got) :
                    \E j \in 1..Len(msgq.put) : msgq'.got[i] = msgq.put[j]]_vars

\* A step in which the call `op` is made on Packet a.
PacketCall(op) == pkt'.calls # pkt.calls /\ pkt'.last.op = op

\* C24 as stated: whatever calls were made on a packet, and however they
\* ended, 0 <= position <= size <= MAX_PACKET_SIZE.
C24_PositionWithinSize ==
    /\ 0 <= pkt.a.mPosition
    /\ pkt.a.mPosition <= pkt.a.mSize
    /\ pkt.a.mSize <= MAX_PACKET_SIZE

\* The part of it the calls keep: neither the position nor the size leaves
\* 0 .. MAX_PACKET_SIZE.
PositionAndSizeWithinCapacity ==
    /\ pkt.a.mPosition \in 0..MAX_PACKET_SIZE
    /\ pkt.a.mSize \in 0..MAX_PACKET_SIZE

\* C25 as stated: a Seek, Skip or write that would take the position or the
\* size beyond MAX_PACKET_SIZE, and a read that would go beyond the size,
\* throws a PacketException and leaves the packet as it was, for every
\* 32-bit position and length.
C25_OutOfBoundsThrows ==
    [][(\/ PacketCall("Seek") /\ LtU32(U32(MAX_PACKET_SIZE), pkt'.last.sz)
        \/ /\ PacketCall("Skip") \/ PacketCall("WriteArray")
           /\ Beyond(pkt.a, pkt'.last.sz, MAX_PACKET_SIZE)
        \/ /\ PacketCall("ReadArray")
           /\ Beyond(pkt.a, pkt'.last.sz, pkt.a.mSize))
          => /\ pkt'.last.threw
             /\ pkt'.state = "ok"
             /\ pkt'.a = pkt.a]_vars

\* The same for the positions and lengths whose sum with the position is
\* below 2^32, which is what the checks of the calls compute with.
OutOfBoundsThrowsWithoutWrap ==
    [][(\/ PacketCall("Seek") /\ LtU32(U32(MAX_PACKET_SIZE), pkt'.last.sz)
        \/ /\ PacketCall("Skip") \/ PacketCall("WriteArray")
           /\ Beyond(pkt.a, pkt'.last.sz, MAX_PACKET_SIZE)
           /\ pkt'.last.sz # Huge
        \/ /\ PacketCall("ReadArray")
           /\ Beyond(pkt.a, pkt'.last.sz, pkt.a.mSize)
           /\ pkt'.last.sz # Huge)
          => /\ pkt'.last.threw
             /\ pkt'.state = "ok"
             /\ pkt'.a = pkt.a]_vars

\* C26: a WriteArray of n > 0 bytes at position p of a packet of size s
\* never leaves a size above MAX_PACKET_SIZE and never a size below s; a
\* write that fits in the buffer succeeds, and a write that succeeds
\* leaves the size p + n when p + n > s and s otherwise.
C26_WriteExtendsOrPreserves ==
    [][PacketCall("WriteArray")
          => LET p == pkt.a.mPosition
                 s == pkt.a.mSize
                 sz == pkt'.last.sz
             IN  /\ pkt'.a.mSize <= MAX_PACKET_SIZE
                 /\ pkt'.a.mSize >= s
                 /\ (~Beyond(pkt.a, sz, MAX_PACKET_SIZE) /\ "a" \notin pkt.null)
                       => pkt'.state = "ok" /\ ~pkt'.last.threw
                 /\ (pkt'.state = "ok" /\ ~pkt'.last.threw)
                       => pkt'.a.mSize = IF p + IntOfU32(sz) > s
                                         THEN p + IntOfU32(sz) ELSE s]_vars

\* A write in the middle of the data was made: it ended before the size.
C26_Witness ==
    /\ pkt.last.op = "WriteArray"
    /\ pkt.state = "ok" /\ ~pkt.last.threw
    /\ pkt.a.mPosition < pkt.a.mSize

\* C27 as stated: the move gives b the bytes, the size and the position of
\* a and leaves a empty, and a write to a afterwards succeeds and leaves b
\* as it was.
C27_MoveLeavesSourceUsable ==
    [][/\ PacketCall("Move")
            => /\ pkt'.state = "ok"
               /\ pkt'.b = pkt.a
               /\ pkt'.a.mSize = 0 /\ pkt'.a.mPosition = 0
       /\ (/\ PacketCall("WriteArray")
           /\ "a" \in pkt.null
           /\ ~Beyond(pkt.a, pkt'.last.sz, MAX_PACKET_SIZE))
            => /\ pkt'.state = "ok" /\ ~pkt'.last.threw
               /\ pkt'.a.mSize >= pkt.a.mPosition + IntOfU32(pkt'.last.sz)
               /\ pkt'.b = pkt.b]_vars

\* The part of it that holds: the move hands a's position, size and bytes
\* to b and resets a, and no later call on a changes b.
MoveTransfers ==
    [][/\ PacketCall("Move")
            => /\ pkt'.b = pkt.a
               /\ pkt'.a.mSize = 0 /\ pkt'.a.mPosition = 0
       /\ ~PacketCall("Move") => pkt'.b = pkt.b]_vars

\* C28 as stated: Split(other, n) with 0 < n <= size - position returns
\* with other holding the n bytes from the position on, other's size n
\* and other's position 0.
C28_SplitMovesBytes ==
    [][(/\ PacketCall("Split")
        /\ pkt'.last.sz # U32(0)
        /\ ~Beyond(pkt.a, pkt'.last.sz, pkt.a.mSize))
          => LET n == IntOfU32(pkt'.last.sz)
             IN  /\ ~pkt'.last.threw
                 /\ pkt'.other.mSize = n
                 /\ pkt'.other.mPosition = 0
                 /\ \A i \in 1..n :
                       (pkt.a.mPosition + i) \in DOMAIN pkt.a.mData
                         => /\ i \in DOMAIN pkt'.other.mData
                            /\ pkt'.other.mData[i]
                                  = pkt.a.mData[pkt.a.mPosition + i]]_vars

\* What Split does with 0 < n <= size - position: it throws and leaves
\* other empty.
SplitThrows ==
    [][(/\ PacketCall("Split")
        /\ pkt'.last.sz # U32(0)
        /\ ~Beyond(pkt.a, pkt'.last.sz, pkt.a.mSize))
          => /\ pkt'.last.threw
             /\ pkt'.other.mSize = 0
             /\ pkt'.a = pkt.a]_vars

\* How often connection c is named in a list.
Named(c, connections) ==
    Cardinality({i \in 1..Len(connections) : connections[i] = c})

\* C29: a broadcast of frame p appends p to the outgoing queue of every
\* connection once for each place the connection has in the list, whatever
\* the place, and changes nothing else of the queues; a connection whose
\* queue was empty and whose socket is open starts sending exactly p.
C29_BroadcastEnqueuesOnEach ==
    [][\A t \in Threads, connections \in BroadcastLists :
         BroadcastPacket(t, connections)
           => \A c \in Conns :
                LET p == <<200 + used.sends>>
                    copies == [i \in 1..Named(c, connections) |-> p]
                IN  /\ conn'[c].mOutgoingPackets
                          = conn[c].mOutgoingPackets \o copies
                    /\ hist'[c].enq = hist[c].enq \o copies
                    /\ hist'[c].issued
                          = IF /\ copies # <<>>
                               /\ conn[c].mOutgoingPackets = <<>>
                               /\ conn[c].mSocket.open
                            THEN Append(hist[c].issued, p)
                            ELSE hist[c].issued]_vars

\* Both connections are sending the same frame.
C29_Witness ==
    /\ hist["c1"].issued # <<>> /\ hist["s1"].issued # <<>>
    /\ hist["c1"].issued[Len(hist["c1"].issued)]
          = hist["s1"].issued[Len(hist["s1"].issued)]

\* C30: once the listener has its parameters, no step replaces, changes
\* or frees them; every connection holds a context of its own, at an
\* address that is neither the listener's nor another connection's, and
\* the context a new connection is given has the listener's p and g.
C30_SharedParametersOnlyRead ==
    [][/\ lsn.mDiffieHellman # 0
            => /\ lsn'.mDiffieHellman = lsn.mDiffieHellman
               /\ lsn'.heap[lsn.mDiffieHellman] = lsn.heap[lsn.mDiffieHellman]
       /\ \A i \in 1..Len(lsn'.mConnections) :
            LET dh == lsn'.mConnections[i].mDiffieHellman
            IN  /\ dh # 0 /\ dh # lsn'.mDiffieHellman
                /\ \A j \in 1..Len(lsn'.mConnections) :
                      j # i => lsn'.mConnections[j].mDiffieHellman # dh
                /\ i > Len(lsn.mConnections)
                      => /\ lsn'.heap[dh].p = lsn'.heap[lsn'.mDiffieHellman].p
                         /\ lsn'.heap[dh].g = lsn'.heap[lsn'.mDiffieHellman].g
                         /\ lsn'.heap[dh].priv = 0]_vars

\* Two connections were accepted; one generated its key pair, the other
\* failed and was destroyed.
C30_Witness ==
    /\ Len(lsn.mConnections) = 2
    /\ \E i, j \in 1..2 :
          /\ lsn.mConnections[i].mStatus = "STATUS_WAITING_ENCRYPTION"
          /\ lsn.heap[lsn.mConnections[i].mDiffieHellman].priv # 0
          /\ lsn.mConnections[j].mStatus = "destroyed"
          /\ lsn.heap[lsn.mConnections[j].mDiffieHellman] = Freed

\* A step in which a handler of connection c closed its socket: a fatal
\* error of the connection.
FatalError(c) == conn[c].mSocket.open /\ ~conn'[c].mSocket.open

\* C31: every step in which a handler closes a connection's socket for a
\* fatal error has written exactly one line to the error log.
C31_OneErrorLinePerFatalError ==
    [][\A c \in Conns : FatalError(c) => hist'[c].errorLines = 1]_vars

\* What holds of the frame parser alone: a step that parsed a frame and
\* closed the socket wrote one line, and no handler writes more than two.
FramingErrorLogsOneLine ==
    [][\A c \in Conns :
         /\ FatalError(c) /\ hist'[c].parses > hist[c].parses
               => hist'[c].errorLines = 1
         /\ hist'[c].errorLines <= 2]_vars

\* A file that is none of: at most as long as the header, of another
\* magic, declaring more original bytes than follow the header.
ValidInput(file) ==
    /\ file.good
    /\ Len(file.bytes) > HeaderSize
    /\ SubSeq(file.bytes, 1, 4) = ENCRYPTED_FILE_MAGIC
    /\ LET originalSize == U32OfBytesLittle(SubSeq(file.bytes, 5, 8))
       IN  /\ originalSize[1] = 0
           /\ originalSize[2] <= Len(file.bytes) - HeaderSize

\* C32: once the decrypt tool has exited, an input that is not a valid
\* encrypted file gave an empty buffer and exit status 1, and the exit
\* status is 0 only for a valid input.
C32_InvalidFileIsRefused ==
    dec.pc = "exited"
       => /\ ~ValidInput(dec.file) => dec.data = <<>> /\ dec.status = 1
          /\ dec.status = 0 => ValidInput(dec.file)

\* What holds: an invalid input longer than the header is refused, and
\* the file EncryptFile wrote for a plaintext decrypts to that plaintext.
LongInvalidFileIsRefused ==
    dec.pc = "exited"
       => /\ Len(dec.file.bytes) > HeaderSize /\ ~ValidInput(dec.file)
               => dec.data = <<>> /\ dec.status = 1
          /\ \A p \in Plaintexts :
               dec.file = EncryptFile(p)
                   => dec.data = p /\ dec.file.bytes # ENCRYPTED_FILE_MAGIC
                                          \o BytesOfU32Little(U32(Len(p))) \o p

\* C33: when /dev/urandom gave its four bytes, the session key is not
\* zero and its most significant bit is clear.
C33_SessionKeyPositive ==
    dec.urandom.good
       => dec.sessionKey # U32(0) /\ dec.sessionKey[1] < 32768

\* What holds: the key is never zero after a successful read, and its
\* most significant bit is clear unless the low 31 random bits were zero.
SessionKeyNotZero ==
    dec.urandom.good
       => /\ dec.sessionKey # U32(0)
          /\ ClearSign(U32OfBytesLittle(dec.urandom.bytes)) # U32(0)
                => dec.sessionKey = ClearSign(U32OfBytesLittle(dec.urandom.bytes))

\* A step in which the frame parser of c was handed a complete frame.
ParsedFrame(c) == hist'[c].parses > hist[c].parses

\* C34: a step that parsed a complete frame and left the connection
\* Encrypted, the frame being well-formed, has requested the header of the
\* next frame: a receive is outstanding after it.
C34_NextHeaderRequested ==
    [][\A c \in Conns :
          ParsedFrame(c) /\ conn'[c].mStatus = "STATUS_ENCRYPTED"
              => conn'[c].mSocket.recv # U32(0)]_vars

\* What holds instead: no step that parsed a frame leaves a receive
\* outstanding, whatever the frame.
ParsedFrameRequestsNothing ==
    [][\A c \in Conns :
          ParsedFrame(c) => conn'[c].mSocket.recv = U32(0)]_vars

\* The outstanding receive of c, if any, ends inside the receive buffer of
\* MAX_PACKET_SIZE bytes.
ReceiveFits(c) ==
    LET size == conn[c].mSocket.recv IN
    size # U32(0)
       => /\ size[1] = 0
          /\ conn[c].mReceivedPacket.mSize + size[2] <= MAX_PACKET_SIZE

\* C35: no connection has a socket read outstanding whose destination,
\* size bytes behind the bytes already received, ends past the end of the
\* receive buffer.
C35_ReceiveWithinBuffer == \A c \in Conns : ReceiveFits(c)

\* What holds: a read of fewer than 2^32 - MAX_PACKET_SIZE bytes, for
\* which the sum in the guard of RequestPacket cannot wrap, fits.
ReceiveFitsUnlessWrapped ==
    \A c \in Conns :
        LtU32(conn[c].mSocket.recv, SubU32(U32(0), U32(MAX_PACKET_SIZE)))
            => ReceiveFits(c)

\* C36: a step that parsed a frame with a framing defect and rejected it,
\* leaving the connection NotConnected, has enqueued nothing.
C36_RejectedFrameEnqueuesNothing ==
    [][\A c \in Conns :
          (/\ ParsedFrame(c)
           /\ Defect(hist'[c].lastFrame) # "none"
           /\ conn'[c].mStatus = "STATUS_NOT_CONNECTED")
              => mQueue' = mQueue]_vars

\* What holds: a frame whose first command is already defective, or that
\* has none, is rejected with nothing enqueued.
FirstDefectEnqueuesNothing ==
    [][\A c \in Conns :
          (/\ ParsedFrame(c)
           /\ LET b == SubSeq(hist'[c].lastFrame, 9, Len(hist'[c].lastFrame))
              IN  \/ Len(b) < 6
                  \/ b[3] + 256 * b[4] < 4
                  \/ 2 + b[3] + 256 * b[4] > Len(b))
              => mQueue' = mQueue]_vars

\* The padded and the real size in the header of a frame.
FrameReal(frame) == U32OfBytesBig(SubSeq(frame, 5, 8))

C38_DequeueReturns ==
    (msgq.pc[Consumer] # "idle" /\ msgq.mQueue # <<>>)
        ~> (msgq.pc[Consumer] = "idle" \/ msgq.state # "ok")

\* What holds: the consumer never waits on an empty queue while a
\* notify is still to come; it waits only having found the queue holding
\* an item.
WaitsOnlyOnItems ==
    [][msgq'.pc[Consumer] = "unlocked" /\ msgq.pc[Consumer] = "idle"
          => msgq.mQueue # <<>>]_vars

\* The frames the application threads send, and a frame's place in the
\* outgoing queue of a connection.
AppFrames == { <<200 + i>> : i \in 0..(MaxAppSends - 1) }

Queued(c, packet) ==
    \E i \in 1..Len(conn[c].mOutgoingPackets) :
        conn[c].mOutgoingPackets[i] = packet

\* C39: a frame passed to SendPacket on a connected connection is
\* eventually written and taken off the outgoing queue, unless the
\* connection becomes not connected.
C39_QueuedFrameIsWritten ==
    \A c \in Conns, packet \in AppFrames :
        (packet \in hist[c].sentConnected /\ Queued(c, packet))
            ~> (~Queued(c, packet) \/ conn[c].mStatus = "STATUS_NOT_CONNECTED")

\* What holds: on a connection that is never connected a second time, one
\* the server accepted, every frame passed to SendPacket is written or the
\* connection becomes not connected.
AcceptedFrameIsWritten ==
    \A packet \in AppFrames :
        (packet \in hist["s1"].sentConnected /\ Queued("s1", packet))
            ~> \/ ~Queued("s1", packet)
               \/ conn["s1"].mStatus = "STATUS_NOT_CONNECTED"

\* A step in which an accept completes, and one in which it completes with
\* a connection made.
AcceptCompleted == lsn'.accepts > lsn.accepts
ConnectionAccepted == Len(lsn'.mConnections) > Len(lsn.mConnections)

\* C40: after every accept completion the listener has a new accept
\* pending.
C40_AcceptStaysPending ==
    [][AcceptCompleted => lsn'.pending]_vars

\* What holds: the listener has a new accept pending after exactly those
\* completions that made a connection.
AcceptPendingIffAccepted ==
    [][AcceptCompleted => (lsn'.pending <=> ConnectionAccepted)]_vars

====
